---------------------------- MODULE Spec2Model ----------------------------
(***************************************************************************)
(* A model of the grounded-generation and audit subsystem of the SEC 10-K  *)
(* RAG assistant: CitationManager and ConfidenceCalculator                 *)
(* (src/src/citations.py), AuditLogger (src/src/audit_logger.py),          *)
(* RAGEngine (src/src/rag_engine.py) and the layers that call it           *)
(* (src/src/assistant.py, src/src/api.py).                                 *)
(*                                                                         *)
(* Strings whose characters the code inspects (substring tests, lengths,   *)
(* truncation) are sequences of one-character strings; strings the code    *)
(* only compares or copies are TLA+ strings.  Python floats are modelled   *)
(* as exact rationals [n, d]; round(x, 2) yields an integer number of      *)
(* hundredths, and when the exact value lies half-way between two          *)
(* hundredths the result depends on the binary representation error of     *)
(* the float, so either neighbour is allowed (a choice made by the action  *)
(* that rounds).                                                           *)
(***************************************************************************)
EXTENDS Integers, Sequences, FiniteSets, TLC

VARIABLES
    \* ---- CitationManager (citations.py:31-33)
    citations,          \* self.citations: sequence of Citation
    citation_counter,   \* self.citation_counter
    cmOp,               \* the CitationManager call that just returned, with its result
    addReturns,         \* [ids: the values add_citation returned since the manager was
                        \* constructed or last changed by another call, fresh: whether
                        \* that call was the construction or reset()]
    \* ---- ConfidenceCalculator.calculate_confidence, as a function under test
    confIn,             \* the arguments (provided_data, retrieved_docs, section)
    confOut,            \* [returned, score: the ConfidenceScore returned, with the
                        \* unrounded locals it was built from]
    \* ---- AuditLogger (audit_logger.py:34-37)
    session_id,         \* self.session_id
    entries,            \* self.entries: sequence of AuditEntry
    log_file,           \* self.log_file
    files,              \* the audit directory: what each log file holds
    clock,              \* datetime.now(): the value the next reading returns
    loggerCall,         \* the call a caller of the logger made last, with what it returned
    \* ---- RAGEngine (rag_engine.py:22-35)
    vector_store,       \* self.doc_processor.vector_store: None or the loaded index
    last_sources,       \* self.last_sources
    last_confidence,    \* self.last_confidence
    call,               \* the generate call in progress: its arguments, its position,
                        \* its docs and the capabilities it has invoked so far
    outcome,            \* how the last generate call ended: returned (text, metadata)
                        \* or raised
    requests,           \* generate calls started
    llmCompleted,       \* llm.invoke calls that returned a response
    \* ---- TenKAssistant and the API in front of it (assistant.py, api.py)
    app,                \* the session: conversation state, the request in progress
    peer,               \* a second session's own RAGEngine, CitationManager and
                        \* AuditLogger while a step of the first one runs, and the
                        \* other way round (api.py:28, 101-104)
    \* ---- YoYAnalyzer (yoy_analysis.py:22-23), exercised on its own
    metrics,            \* self.metrics: sequence of YoYMetric
    yoyCall             \* the call made last on the analyzer: its argument and result

citeVars == <<citations, citation_counter, cmOp, addReturns>>
confVars == <<confIn, confOut>>
auditVars == <<session_id, entries, log_file, files, clock, loggerCall>>
engineVars == <<vector_store, last_sources, last_confidence, call, outcome, requests, llmCompleted>>
appVars == <<app, peer>>
yoyVars == <<metrics, yoyCall>>
vars == <<citeVars, confVars, auditVars, engineVars, appVars, yoyVars>>

None == "None"

----------------------------------------------------------------------------
(* Bounds of the model *)

\* longest passage list handed to the CitationManager in one call
MaxDocs == 3
\* most citations a manager holds before it is reset
MaxCitations == 3
\* most entries of a provided-data map
MaxFields == 2
\* longest passage list handed to calculate_confidence
MaxConfDocs == 9
\* the clock reading at which the audit logger's callers stop
MaxClock == 3
\* generate calls made on one engine
MaxRequests == 2
\* requests served in one session: chats and resets
MaxChats == 3
\* calls made on one YoYAnalyzer
MaxAnalyses == 2
\* entries of a map given to analyze_data
MaxYoYFields == 3

----------------------------------------------------------------------------
(* Character strings *)

Chars(n, c) == [i \in 1..n |-> c]

\* s[:n]
Prefix(s, n) == SubSeq(s, 1, IF Len(s) < n THEN Len(s) ELSE n)

\* Python's `sub in s`
Contains(s, sub) ==
    \E i \in 0..(Len(s) - Len(sub)) : SubSeq(s, i + 1, i + Len(sub)) = sub

----------------------------------------------------------------------------
(* Retrieved passages: langchain Document(page_content, metadata) *)

\* dict.get(key, default) on a metadata map
MetaGet(meta, key, default) == IF key \in DOMAIN meta THEN meta[key] ELSE default

Date2024 == <<"2","0","2","4","-","0","2","-","2","1">>
Date2025 == <<"2","0","2","5","-","0","1","-","3","0">>
Date2023 == <<"2","0","2","3","-","0","2","-","2","4">>
Date2021 == <<"2","0","2","1","-","0","3","-","0","1">>
Unknown == <<"U","n","k","n","o","w","n">>

Meta(company, section, date, idx) ==
    [k \in {"company_name", "section", "filing_date", "chunk_index"} |->
        CASE k = "company_name" -> company
          [] k = "section" -> section
          [] k = "filing_date" -> date
          [] OTHER -> idx]

Doc(content, meta) == [page_content |-> content, metadata |-> meta]

\* the excerpt length of add_citation (citations.py:56)
ExcerptLen == 200

\* Passages as create_documents_from_filing builds them (document_processor.py:77-88):
\* short chunks and one longer than ExcerptLen.
DocA == Doc(Chars(3, "a"), Meta("NVIDIA Corporation", "Item 1 - Business", Date2024, 0))
DocB == Doc(Chars(5, "b"), Meta("NVIDIA Corporation", "Item 7 - MD&A", Date2023, 1))
DocC == Doc(Chars(ExcerptLen + 1, "c"), Meta("NVIDIA Corporation", "Item 1A - Risk Factors", Date2021, 2))
DocD == Doc(Chars(2, "d"), Meta("NVIDIA Corporation", "Item 7A - Market Risk", Date2025, 0))
\* A passage whose metadata lacks every key the code reads with .get
DocBare == Doc(<<>>, [k \in {"ticker"} |-> "NVDA"])

DocPool == {DocA, DocB, DocC, DocD, DocBare}
\* the passages the CitationManager's callers pass in
CitePool == {DocA, DocC, DocBare}

\* all passage lists of length <= n over a pool
SeqsUpTo(S, n) == UNION {[1..k -> S] : k \in 0..n}

----------------------------------------------------------------------------
(* CitationManager, citations.py:28-100 *)

\* citations.py:56
Excerpt(content) ==
    IF Len(content) > ExcerptLen
        THEN Prefix(content, ExcerptLen) \o <<".", ".", ".">>
        ELSE content

\* the Citation built by add_citation (citations.py:49-57)
MakeCitation(id, document, relevance_score) ==
    [source_id |-> id,
     company |-> MetaGet(document.metadata, "company_name", "Unknown"),
     section |-> MetaGet(document.metadata, "section", "Unknown"),
     filing_date |-> MetaGet(document.metadata, "filing_date", Unknown),
     chunk_index |-> MetaGet(document.metadata, "chunk_index", 0),
     relevance_score |-> relevance_score,
     excerpt |-> Excerpt(document.page_content)]

\* the counter after `self.citation_counter += 1` (citations.py:46)
NextCounter(counter) == counter + 1

\* add_citation as a function of the manager's fields: the new fields and the id returned
AddCitationTo(cm, document, relevance_score) ==
    LET c == NextCounter(cm.citation_counter)
    IN  [citations |-> Append(cm.citations, MakeCitation(c, document, relevance_score)),
         citation_counter |-> c,
         result |-> c]

\* reset (citations.py:35-38)
ResetManager == [citations |-> <<>>, citation_counter |-> 0]

\* FormatStart without the `self.reset()` of citations.py:63
FormatStartNoReset(cm) ==
    [citations |-> cm.citations,
     citation_counter |-> cm.citation_counter,
     citation_map |-> <<>>,
     formatted_parts |-> <<>>]

\* the state the loop of format_citations_for_prompt starts from (citations.py:63-65)
FormatStart(cm) ==
    [citations |-> ResetManager.citations,
     citation_counter |-> ResetManager.citation_counter,
     citation_map |-> <<>>,
     formatted_parts |-> <<>>]

\* the loop of format_citations_for_prompt over documents[1..k] (citations.py:67-73);
\* citation_map is kept as the sequence of its <<key, value>> insertions
RECURSIVE FormatLoop(_, _, _)
FormatLoop(cm, documents, k) ==
    IF k = 0 THEN FormatStart(cm)
    ELSE LET prev == FormatLoop(cm, documents, k - 1)
             added == AddCitationTo(prev, documents[k], 0)
             cite_id == added.result
             header == [source |-> cite_id,
                        company |-> MetaGet(documents[k].metadata, "company_name", "Unknown"),
                        section |-> MetaGet(documents[k].metadata, "section", "Unknown"),
                        filed |-> MetaGet(documents[k].metadata, "filing_date", Unknown)]
         IN  [citations |-> added.citations,
              citation_counter |-> added.citation_counter,
              citation_map |-> Append(prev.citation_map,
                                      <<cite_id, added.citations[Len(added.citations)]>>),
              formatted_parts |-> Append(prev.formatted_parts,
                                         [header |-> header, body |-> documents[k].page_content])]

\* format_citations_for_prompt (citations.py:61-75)
FormatCitationsForPrompt(cm, documents) == FormatLoop(cm, documents, Len(documents))

\* get_citations_json (citations.py:87-100)
CitationsJson(cites) ==
    [i \in 1..Len(cites) |->
        [id |-> cites[i].source_id,
         company |-> cites[i].company,
         section |-> cites[i].section,
         filing_date |-> cites[i].filing_date,
         chunk_index |-> cites[i].chunk_index,
         relevance_score |-> cites[i].relevance_score,
         excerpt |-> cites[i].excerpt]]

\* a dict given as the sequence of its insertions: its keys and the value of a key
\* (a later insertion under the same key replaces the earlier value)
DictKeys(d) == {d[i][1] : i \in 1..Len(d)}
DictGet(d, k) ==
    LET last == CHOOSE i \in 1..Len(d) :
                    d[i][1] = k /\ \A j \in (i + 1)..Len(d) : d[j][1] # k
    IN  d[last][2]

CmNow == [citations |-> citations, citation_counter |-> citation_counter]

\* a caller's add_citation(document, relevance_score)
AddCitation ==
    /\ Len(citations) < MaxCitations
    /\ \E document \in CitePool, relevance_score \in {0, 1} :
        LET r == AddCitationTo(CmNow, document, relevance_score)
        IN  /\ citations' = r.citations
            /\ citation_counter' = r.citation_counter
            /\ cmOp' = [op |-> "add_citation", result |-> r.result]
            /\ addReturns' = [addReturns EXCEPT !.ids = Append(@, r.result)]
    /\ UNCHANGED <<confVars, auditVars, engineVars, appVars, yoyVars>>

\* a caller's reset()
Reset ==
    /\ citations' = ResetManager.citations
    /\ citation_counter' = ResetManager.citation_counter
    /\ cmOp' = [op |-> "reset"]
    /\ addReturns' = [fresh |-> TRUE, ids |-> <<>>]
    /\ UNCHANGED <<confVars, auditVars, engineVars, appVars, yoyVars>>

\* a caller's format_citations_for_prompt(documents)
FormatCitations ==
    /\ \E documents \in SeqsUpTo(CitePool, MaxDocs) :
        LET r == FormatCitationsForPrompt(CmNow, documents)
        IN  /\ citations' = r.citations
            /\ citation_counter' = r.citation_counter
            /\ cmOp' = [op |-> "format_citations_for_prompt",
                        counter_before |-> citation_counter,
                        documents |-> documents,
                        citation_map |-> r.citation_map,
                        formatted_parts |-> r.formatted_parts]
    /\ addReturns' = [fresh |-> FALSE, ids |-> <<>>]
    /\ UNCHANGED <<confVars, auditVars, engineVars, appVars, yoyVars>>

CiteInit ==
    /\ citations = <<>>
    /\ citation_counter = 0
    /\ cmOp = [op |-> "init"]
    /\ addReturns = [fresh |-> TRUE, ids |-> <<>>]

ConfIdle ==
    /\ confIn = [called |-> FALSE]
    /\ confOut = [returned |-> FALSE]

\* AuditLogger.__init__ (audit_logger.py:34-37); the clock is at the time of construction
AuditInit ==
    /\ session_id = "s1"
    /\ entries = <<>>
    /\ log_file = "audit_s1_t0.json"
    /\ files = [f \in {"audit_s1_t0.json"} |-> [written |-> FALSE]]
    /\ clock = 1
    /\ loggerCall = [op |-> "init"]

\* financial_data=None
NoData == [given |-> FALSE, items |-> <<>>]

\* no generate call in progress, none finished
IdleCall ==
    [pc |-> "idle", method |-> None, ticker |-> None, fiscal_year |-> None,
     financial_data |-> NoData, include_citations |-> TRUE,
     docs |-> <<>>, trace |-> <<>>, first_entry |-> 0]
NoOutcome == [kind |-> "none", call |-> IdleCall]

\* RAGEngine.__init__ (rag_engine.py:22-35) with the index loaded
EngineIdle ==
    /\ vector_store = "loaded"
    /\ last_sources = <<>>
    /\ last_confidence = [set |-> FALSE]
    /\ call = IdleCall
    /\ outcome = NoOutcome
    /\ requests = 0
    /\ llmCompleted = 0

\* ConversationContext() (assistant.py:24-35)
NewContext ==
    [state |-> "initial", ticker |-> None, company_name |-> None, fiscal_year |-> None,
     financial_data |-> <<>>,
     generated_sections |-> [business |-> [set |-> FALSE], mda |-> [set |-> FALSE]],
     messages |-> <<>>]

\* TenKAssistant.__init__ (assistant.py:60-67), no request served yet
NoSession == [session_id |-> None]
AppIdle ==
    /\ app = [context |-> NewContext, pc |-> "idle", response |-> <<>>, failures |-> {},
              chats |-> 0, result |-> [status |-> 0]]
    /\ peer = NoSession

\* YoYAnalyzer.__init__ (yoy_analysis.py:22-23)
YoYIdle ==
    /\ metrics = <<>>
    /\ yoyCall = [op |-> "init", n |-> 0]

InitCite == CiteInit /\ ConfIdle /\ AuditInit /\ EngineIdle /\ AppIdle /\ YoYIdle
NextCite == AddCitation \/ Reset \/ FormatCitations
SpecCite == InitCite /\ [][NextCite]_vars

----------------------------------------------------------------------------
(* Exact rationals for the float arithmetic of citations.py *)

RECURSIVE GCD(_, _)
GCD(a, b) == IF b = 0 THEN a ELSE GCD(b, a % b)

\* the rational n/d (n >= 0, d > 0) in lowest terms
Rat(n, d) == LET g == GCD(n, d) IN [n |-> n \div g, d |-> d \div g]
RAdd(x, y) == Rat(x.n * y.d + y.n * x.d, x.d * y.d)
RMul(x, y) == Rat(x.n * y.n, x.d * y.d)
RLe(x, y) == x.n * y.d <= y.n * x.d
RLt(x, y) == x.n * y.d < y.n * x.d
RMin(x, y) == IF RLe(x, y) THEN x ELSE y
ROne == Rat(1, 1)
RZero == Rat(0, 1)

\* whether x lies exactly half-way between two hundredths
IsTie(x) == (2 * ((100 * x.n) % x.d)) = x.d

\* round(x, 2) in hundredths; `tie` (0 or 1) is the neighbour taken when x is a tie
Round2(x, tie) ==
    LET fl == (100 * x.n) \div x.d
        r2 == 2 * ((100 * x.n) % x.d)
    IN  IF r2 > x.d THEN fl + 1
        ELSE IF r2 < x.d THEN fl
        ELSE fl + tie

----------------------------------------------------------------------------
(* Provided-data maps: a dict is the sequence of its <<key, value>> insertions *)

LowerChar(c) ==
    CASE
         c = "A" -> "a"
      [] c = "B" -> "b"
      [] c = "C" -> "c"
      [] c = "D" -> "d"
      [] c = "E" -> "e"
      [] c = "F" -> "f"
      [] c = "G" -> "g"
      [] c = "H" -> "h"
      [] c = "I" -> "i"
      [] c = "J" -> "j"
      [] c = "K" -> "k"
      [] c = "L" -> "l"
      [] c = "M" -> "m"
      [] c = "N" -> "n"
      [] c = "O" -> "o"
      [] c = "P" -> "p"
      [] c = "Q" -> "q"
      [] c = "R" -> "r"
      [] c = "S" -> "s"
      [] c = "T" -> "t"
      [] c = "U" -> "u"
      [] c = "V" -> "v"
      [] c = "W" -> "w"
      [] c = "X" -> "x"
      [] c = "Y" -> "y"
      [] c = "Z" -> "z"
      [] OTHER -> c

\* str.lower()
Lower(s) == [i \in 1..Len(s) |-> LowerChar(s[i])]

\* sep.join(parts)
RECURSIVE Join(_, _)
Join(parts, sep) ==
    IF Len(parts) = 0 THEN <<>>
    ELSE IF Len(parts) = 1 THEN parts[1]
    ELSE parts[1] \o sep \o Join(Tail(parts), sep)

\* the values of a dict, in insertion order
DictValues(d) == [i \in 1..Len(d) |-> d[i][2]]

\* str(d) of a dict of strings: {'k1': 'v1', 'k2': 'v2'}
DictStr(d) ==
    <<"{">> \o
    Join([i \in 1..Len(d) |-> <<"'">> \o d[i][1] \o <<"'", ":", " ", "'">> \o d[i][2] \o <<"'">>],
         <<",", " ">>)
    \o <<"}">>

K_raw_input == <<"r","a","w","_","i","n","p","u","t">>
K_Revenue == <<"R","e","v","e","n","u","e">>
K_RevenuePrior == <<"R","e","v","e","n","u","e"," ","(","P","r","i","o","r"," ","Y","e","a","r",")">>
K_Notes == <<"N","o","t","e","s">>

V_Amount == <<"$","1","2",".","5"," ","b","i","l","l","i","o","n">>
V_AmountPrior == <<"$","1","0",".","0"," ","b","i","l","l","i","o","n">>
V_RevenueGrowth == <<"R","e","v","e","n","u","e"," ","u","p",","," ","G","r","o","w","t","h"," ","2","5","%">>
V_Financials == <<"o","p","e","r","a","t","i","n","g"," ","i","n","c","o","m","e",","," ","n","e","t"," ","i","n","c","o","m","e",","," ","c","a","s","h"," ","f","l","o","w",","," ","E","B","I","T","D","A"," ","a","n","d"," ","m","a","r","g","i","n">>
V_Business == <<"n","e","w"," ","p","r","o","d","u","c","t","s",","," ","s","e","r","v","i","c","e","s"," ","a","n","d"," ","m","a","r","k","e","t","s">>

----------------------------------------------------------------------------
(* ConfidenceCalculator, citations.py:103-221 *)

\* citations.py:107-110
REQUIRED_FINANCIAL_FIELDS ==
    << <<"r","e","v","e","n","u","e">>, <<"g","r","o","w","t","h">>, <<"o","p","e","r","a","t","i","n","g"," ","i","n","c","o","m","e">>, <<"n","e","t"," ","i","n","c","o","m","e">>,
       <<"c","a","s","h"," ","f","l","o","w">>, <<"e","b","i","t","d","a">>, <<"m","a","r","g","i","n">> >>

\* citations.py:112-114
REQUIRED_BUSINESS_FIELDS ==
    << <<"p","r","o","d","u","c","t","s">>, <<"s","e","r","v","i","c","e","s">>, <<"m","a","r","k","e","t","s">>,
       <<"a","c","q","u","i","s","i","t","i","o","n","s">>, <<"p","a","r","t","n","e","r","s","h","i","p","s">> >>

\* the checklist chosen by section (citations.py:149-152)
RequiredFieldsFinancial(section) == REQUIRED_FINANCIAL_FIELDS
RequiredFields(section) ==
    IF section = "mda" THEN REQUIRED_FINANCIAL_FIELDS ELSE REQUIRED_BUSINESS_FIELDS

\* EmptyDataCoverage as the ratio of matched fields (none) instead of the base score
EmptyDataCoverageZero == Rat(0, 10)

\* the base score of RAG-only generation (citations.py:145)
EmptyDataCoverage == Rat(3, 10)

\* _calculate_data_coverage (citations.py:142-161), unrounded
CalculateDataCoverage(data, section) ==
    IF Len(data) = 0 THEN EmptyDataCoverage
    ELSE LET data_str == Join([i \in 1..Len(data) |-> Lower(DictValues(data)[i])], <<" ">>)
             required == RequiredFields(section)
             matched == Cardinality({i \in 1..Len(required) : Contains(data_str, required[i])})
             coverage == Rat(matched, Len(required))
             boosted == IF K_raw_input \in DictKeys(data)
                           THEN RMin(ROne, RAdd(coverage, Rat(2, 10)))
                           ELSE coverage
         IN  RMin(ROne, RAdd(boosted, Rat(3, 10)))

\* the recency score of one passage, in tenths (citations.py:178-184)
RecencyTenths(doc) ==
    LET filing_date == MetaGet(doc.metadata, "filing_date", <<>>)
    IN  IF Contains(filing_date, <<"2","0","2","4">>) \/ Contains(filing_date, <<"2","0","2","5">>) THEN 10
        ELSE IF Contains(filing_date, <<"2","0","2","3">>) THEN 8
        ELSE 5

RECURSIVE SumTenths(_, _)
SumTenths(docs, k) == IF k = 0 THEN 0 ELSE SumTenths(docs, k - 1) + RecencyTenths(docs[k])

\* QuantityScore without the min(1.0, ...) of citations.py:169
QuantityScoreNoClamp(docs) == Rat(Len(docs), 8)

\* min(1.0, len(docs) / 8) (citations.py:169)
QuantityScore(docs) == RMin(ROne, Rat(Len(docs), 8))

\* min(1.0, len(sections) / 3) (citations.py:172-173)
DiversityScore(docs) ==
    LET sections == {MetaGet(docs[i].metadata, "section", "") : i \in 1..Len(docs)}
    IN  RMin(ROne, Rat(Cardinality(sections), 3))

\* _calculate_source_quality (citations.py:163-188), unrounded
CalculateSourceQuality(docs) ==
    IF Len(docs) = 0 THEN RZero
    ELSE LET recency_score == Rat(SumTenths(docs, Len(docs)), 10 * Len(docs))
         IN  RAdd(RAdd(RMul(QuantityScore(docs), Rat(3, 10)),
                       RMul(DiversityScore(docs), Rat(3, 10))),
                  RMul(recency_score, Rat(4, 10)))

\* data_coverage * 0.6 + source_quality * 0.4 (citations.py:130)
OverallOf(data_coverage, source_quality) ==
    RAdd(RMul(data_coverage, Rat(6, 10)), RMul(source_quality, Rat(4, 10)))

\* _generate_reasoning (citations.py:190-221): the clauses joined by "; "
GenerateReasoning(data_coverage, source_quality, provided_data) ==
    << IF RLe(Rat(8, 10), data_coverage) THEN "Comprehensive financial data provided"
       ELSE IF RLe(Rat(5, 10), data_coverage) THEN "Partial financial data provided"
       ELSE "Limited financial data - some sections may be incomplete" >>
    \o
    << IF RLe(Rat(8, 10), source_quality) THEN "Strong source coverage from prior filings"
       ELSE IF RLe(Rat(5, 10), source_quality) THEN "Adequate source coverage"
       ELSE "Limited source material available" >>
    \o
    (IF Len(provided_data) > 0 /\ Contains(Lower(DictStr(provided_data)), <<"r","e","v","e","n","u","e">>)
        THEN << "Revenue figures grounded in provided data" >> ELSE << >>)
    \o
    (IF Len(provided_data) > 0 /\ Contains(Lower(DictStr(provided_data)), <<"g","r","o","w","t","h">>)
        THEN << "Growth metrics available for comparison" >> ELSE << >>)

\* the unrounded locals data_coverage, source_quality and overall of
\* calculate_confidence (citations.py:124-130)
ConfidenceLocals(provided_data, retrieved_docs, section) ==
    LET data_coverage == CalculateDataCoverage(provided_data, section)
        source_quality == CalculateSourceQuality(retrieved_docs)
    IN  [overall |-> OverallOf(data_coverage, source_quality),
         data_coverage |-> data_coverage,
         source_quality |-> source_quality]

\* ScoreOf with overall computed from the two fields as they are returned (rounded)
ScoreOfRoundedFields(raw, provided_data, ties) ==
    [overall |-> Round2(OverallOf(Rat(Round2(raw.data_coverage, ties[2]), 100),
                                  Rat(Round2(raw.source_quality, ties[3]), 100)), ties[1]),
     data_coverage |-> Round2(raw.data_coverage, ties[2]),
     source_quality |-> Round2(raw.source_quality, ties[3]),
     reasoning |-> GenerateReasoning(raw.data_coverage, raw.source_quality, provided_data),
     raw |-> raw]

\* the ConfidenceScore built from the locals (citations.py:133-140), its numeric fields
\* in hundredths; ties = <<t1, t2, t3>> are the neighbours the three round() calls take
\* on a tie.  raw keeps the locals.
ScoreOf(raw, provided_data, ties) ==
    [overall |-> Round2(raw.overall, ties[1]),
     data_coverage |-> Round2(raw.data_coverage, ties[2]),
     source_quality |-> Round2(raw.source_quality, ties[3]),
     reasoning |-> GenerateReasoning(raw.data_coverage, raw.source_quality, provided_data),
     raw |-> raw]

\* the outcomes of the three round() calls: a choice only where the value is a tie
TiesOf(raw) ==
    {t \in [1..3 -> {0, 1}] :
        /\ (t[1] = 1 => IsTie(raw.overall))
        /\ (t[2] = 1 => IsTie(raw.data_coverage))
        /\ (t[3] = 1 => IsTie(raw.source_quality))}


\* ---- calculate_confidence under test: the arguments a caller can pass

\* provided-data maps of at most MaxFields entries with distinct keys
DataKeys == {K_Revenue, K_raw_input}
DataValues == {V_Amount, V_RevenueGrowth, V_Financials, V_Business}
DataMaps ==
    {d \in SeqsUpTo(DataKeys \X DataValues, MaxFields) :
        \A i, j \in 1..Len(d) : i # j => d[i][1] # d[j][1]}

\* passage lists of at most MaxConfDocs passages: count[i] copies of the i-th passage
ConfDocOrder == <<DocA, DocB, DocD, DocBare>>
RECURSIVE Copies(_, _)
Copies(count, i) ==
    IF i = 0 THEN <<>> ELSE Copies(count, i - 1) \o [j \in 1..count[i] |-> ConfDocOrder[i]]
RECURSIVE SumTo(_, _)
SumTo(count, i) == IF i = 0 THEN 0 ELSE SumTo(count, i - 1) + count[i]
ConfDocLists ==
    {Copies(count, Len(ConfDocOrder)) :
        count \in {c \in [1..Len(ConfDocOrder) -> 0..MaxConfDocs] :
                      SumTo(c, Len(ConfDocOrder)) <= MaxConfDocs}}

Sections == {"mda", "business"}

\* calculate_confidence(provided_data, retrieved_docs, section) returns
CallCalculateConfidence ==
    /\ ~confOut.returned
    /\ LET raw == ConfidenceLocals(confIn.provided_data, confIn.retrieved_docs,
                                   confIn.section)
       IN  \E ties \in TiesOf(raw) :
               confOut' = [returned |-> TRUE,
                           score |-> ScoreOf(raw, confIn.provided_data, ties)]
    /\ UNCHANGED <<confIn, citeVars, auditVars, engineVars, appVars, yoyVars>>

InitConf ==
    /\ CiteInit
    /\ AuditInit
    /\ EngineIdle
    /\ AppIdle
    /\ YoYIdle
    /\ \E d \in DataMaps, docs \in ConfDocLists, s \in Sections :
        confIn = [provided_data |-> d, retrieved_docs |-> docs, section |-> s]
    /\ confOut = [returned |-> FALSE]
NextConf == CallCalculateConfidence
SpecConf == InitConf /\ [][NextConf]_vars

----------------------------------------------------------------------------
(* JSON values and json.dumps(content, sort_keys=True, default=str) *)

\* the printable ASCII characters in code order, from the space (code 32) on; the
\* grave accent (code 96), which no text of the model holds, is written by name
Ascii ==
    <<" ","!","\"","#","$","%","&","'","(",")","*","+",",","-",".","/","0","1","2","3","4","5","6","7","8","9",":",";","<","=",">","?","@","A","B","C","D","E","F","G","H","I","J","K","L","M","N","O","P","Q","R","S","T","U","V","W","X","Y","Z","[","\\","]","^","_","grave","a","b","c","d","e","f","g","h","i","j","k","l","m","n","o","p","q","r","s","t","u","v","w","x","y","z","{","|","}","~">>

\* ord(c)
CharCode(c) == 31 + (CHOOSE i \in 1..Len(Ascii) : Ascii[i] = c)

\* a < b for two str (code-point order, a proper prefix first)
RECURSIVE StrLess(_, _)
StrLess(a, b) ==
    IF Len(b) = 0 THEN FALSE
    ELSE IF Len(a) = 0 THEN TRUE
    ELSE IF a[1] = b[1] THEN StrLess(Tail(a), Tail(b))
    ELSE CharCode(a[1]) < CharCode(b[1])

JStr(s) == [t |-> "str", v |-> s]
JInt(n) == [t |-> "int", v |-> n]
JDict(items) == [t |-> "dict", v |-> items]

\* str(n) of an int n >= 0
RECURSIVE IntToStr(_)
IntToStr(n) ==
    IF n < 10 THEN <<Ascii[17 + n]>> ELSE IntToStr(n \div 10) \o <<Ascii[17 + (n % 10)]>>

\* the items of a dict kept in insertion order (what json.dumps does without sort_keys)
InsertionOrder(items) == items

\* sorted(dict.items()) by key, the order sort_keys=True writes them in
RECURSIVE SortItems(_)
SortItems(items) ==
    IF Len(items) <= 1 THEN items
    ELSE LET rest == SortItems(Tail(items))
             before == SelectSeq(rest, LAMBDA it : StrLess(it[1], items[1][1]))
             after == SelectSeq(rest, LAMBDA it : ~StrLess(it[1], items[1][1]))
         IN  before \o <<items[1]>> \o after

\* json.dumps(value, sort_keys=True): the text written, character by character
RECURSIVE JsonDumps(_)
JsonDumps(value) ==
    CASE value.t = "str" -> <<"\"">> \o value.v \o <<"\"">>
      [] value.t = "int" -> IntToStr(value.v)
      [] OTHER ->
            LET items == SortItems(value.v)
            IN  <<"{">> \o
                Join([i \in 1..Len(items) |->
                         <<"\"">> \o items[i][1] \o <<"\"", ":", " ">> \o JsonDumps(items[i][2])],
                     <<",", " ">>)
                \o <<"}">>

\* hashlib.sha256(text.encode()).hexdigest()[:16].  The digest is not computed: it is
\* taken to be collision-free, a text that stands for the digest of exactly one input.
Sha256Hex16(text) == <<"#">> \o text

\* _hash_content (audit_logger.py:39-42)
HashContent(content) == Sha256Hex16(JsonDumps(content))

----------------------------------------------------------------------------
(* AuditLogger, audit_logger.py:31-219 *)

\* _create_entry (audit_logger.py:44-64): the entry appended, stamped with now
CreateEntry(now, sid, event_type, content, ticker, fiscal_year, metadata) ==
    [timestamp |-> now,
     session_id |-> sid,
     event_type |-> event_type,
     ticker |-> ticker,
     fiscal_year |-> fiscal_year,
     content_hash |-> HashContent(content),
     content |-> content,
     metadata |-> metadata]

\* log_user_request (audit_logger.py:66-79)
UserRequestEntry(now, sid, message, ticker, fiscal_year) ==
    CreateEntry(now, sid, "user_request",
                JDict(<< <<<<"m","e","s","s","a","g","e">>, JStr(message)>> >>),
                ticker, fiscal_year,
                [message_length |-> Len(message)])

\* log_data_provided (audit_logger.py:81-102)
DataProvidedEntry(now, sid, raw_input, parsed_data, ticker, fiscal_year) ==
    CreateEntry(now, sid, "data_provided",
                JDict(<< <<<<"r","a","w","_","i","n","p","u","t">>, JStr(raw_input)>>,
                         <<<<"p","a","r","s","e","d","_","d","a","t","a">>,
                           JDict([i \in 1..Len(parsed_data) |->
                                     <<parsed_data[i][1], JStr(parsed_data[i][2])>>])>> >>),
                ticker, fiscal_year,
                [input_length |-> Len(raw_input),
                 fields_parsed |-> Len(parsed_data),
                 fields |-> [i \in 1..Len(parsed_data) |-> parsed_data[i][1]]])

\* log_generation (audit_logger.py:104-128)
GenerationEntry(now, sid, section, generated_text, sources_used, confidence_score, ticker, fiscal_year) ==
    CreateEntry(now, sid, "generation",
                JDict(<< <<<<"s","e","c","t","i","o","n">>, JStr(section)>>,
                         <<<<"g","e","n","e","r","a","t","e","d","_","t","e","x","t">>, JStr(generated_text)>>,
                         <<<<"t","e","x","t","_","l","e","n","g","t","h">>, JInt(Len(generated_text))>> >>),
                ticker, fiscal_year,
                [sources_count |-> Len(sources_used),
                 sources |-> sources_used,
                 confidence |-> confidence_score])

\* log_revision (audit_logger.py:130-155); change_ratio is kept as the pair it divides
RevisionEntry(now, sid, section, original_text, revised_text, revision_reason, ticker, fiscal_year) ==
    CreateEntry(now, sid, "revision",
                JDict(<< <<<<"s","e","c","t","i","o","n">>, JStr(section)>>,
                         <<<<"o","r","i","g","i","n","a","l","_","h","a","s","h">>, JStr(HashContent(JStr(original_text)))>>,
                         <<<<"r","e","v","i","s","e","d","_","t","e","x","t">>, JStr(revised_text)>>,
                         <<<<"r","e","v","i","s","i","o","n","_","r","e","a","s","o","n">>, JStr(revision_reason)>> >>),
                ticker, fiscal_year,
                [original_length |-> Len(original_text),
                 revised_length |-> Len(revised_text),
                 change_ratio |-> <<Len(revised_text),
                                    IF Len(original_text) > 1 THEN Len(original_text) ELSE 1>>])

\* self.entries.append(entry) in _create_entry (audit_logger.py:63)
PrependEntry(es, entry) == <<entry>> \o es
AppendEntry(es, entry) == Append(es, entry)

\* asdict(e): a dict of the fields of the AuditEntry dataclass (audit_logger.py:18-28)
AsDictNoContent(e) ==
    [timestamp |-> e.timestamp, session_id |-> e.session_id, event_type |-> e.event_type,
     ticker |-> e.ticker, fiscal_year |-> e.fiscal_year, content_hash |-> e.content_hash]
AsDict(e) ==
    [timestamp |-> e.timestamp, session_id |-> e.session_id, event_type |-> e.event_type,
     ticker |-> e.ticker, fiscal_year |-> e.fiscal_year, content_hash |-> e.content_hash,
     content |-> e.content, metadata |-> e.metadata]

\* the document save_log writes (audit_logger.py:159-164)
LogData(now, sid, es) ==
    [session_id |-> sid,
     created_at |-> now,
     total_entries |-> Len(es),
     entries |-> [i \in 1..Len(es) |-> AsDict(es[i])]]

\* section names as the str the callers pass
S_business == <<"b","u","s","i","n","e","s","s">>
S_mda == <<"m","d","a">>

\* ---- the arguments the logger's callers pass
Messages == {<<"D","r","a","f","t"," ","t","h","e"," ","1","0","-","K"," ","f","o","r"," ","N","V","D","A">>, <<"F","Y"," ","2","0","2","4">>}
Texts == {<<"I","t","e","m"," ","1","."," ","B","u","s","i","n","e","s","s">>, <<"I","t","e","m"," ","7","."," ","M","D","&","A">>}
TickerArgs == {<<None, None>>, <<"NVDA", "2024">>}
\* parsed-data maps: the same pairs occur in both insertion orders
ParsedKeys == {K_Revenue, K_RevenuePrior}
ParsedValues == {V_Amount, V_AmountPrior}
ParsedMaps ==
    {d \in SeqsUpTo(ParsedKeys \X ParsedValues, MaxFields) :
        \A i, j \in 1..Len(d) : i # j => d[i][1] # d[j][1]}
SourceLists == {<<>>, CitationsJson(FormatCitationsForPrompt(ResetManager, <<DocA>>).citations)}
ConfidenceArgs == {[overall |-> 18, data_coverage |-> 30, source_quality |-> 0]}

LogUserRequest ==
    /\ clock < MaxClock
    /\ \E message \in Messages, tf \in TickerArgs :
        entries' = AppendEntry(entries, UserRequestEntry(clock, session_id, message, tf[1], tf[2]))
    /\ clock' = clock + 1
    /\ loggerCall' = [op |-> "log_user_request"]
    /\ UNCHANGED <<session_id, log_file, files, citeVars, confVars, engineVars, appVars, yoyVars>>

LogDataProvided ==
    /\ clock < MaxClock
    /\ \E raw_input \in Messages, parsed_data \in ParsedMaps :
        entries' = AppendEntry(entries, DataProvidedEntry(clock, session_id, raw_input,
                                                          parsed_data, "NVDA", "2024"))
    /\ clock' = clock + 1
    /\ loggerCall' = [op |-> "log_data_provided"]
    /\ UNCHANGED <<session_id, log_file, files, citeVars, confVars, engineVars, appVars, yoyVars>>

LogGeneration ==
    /\ clock < MaxClock
    /\ \E section \in {S_business, S_mda}, generated_text \in Texts,
          sources_used \in SourceLists, confidence_score \in ConfidenceArgs :
        entries' = AppendEntry(entries, GenerationEntry(clock, session_id, section, generated_text,
                                                   sources_used, confidence_score,
                                                   "NVDA", "2024"))
    /\ clock' = clock + 1
    /\ loggerCall' = [op |-> "log_generation"]
    /\ UNCHANGED <<session_id, log_file, files, citeVars, confVars, engineVars, appVars, yoyVars>>

LogRevision ==
    /\ clock < MaxClock
    /\ \E original_text \in Texts, revised_text \in Texts :
        entries' = AppendEntry(entries, RevisionEntry(clock, session_id, S_business, original_text,
                                                 revised_text, <<"t","o","n","e">>, "NVDA", "2024"))
    /\ clock' = clock + 1
    /\ loggerCall' = [op |-> "log_revision"]
    /\ UNCHANGED <<session_id, log_file, files, citeVars, confVars, engineVars, appVars, yoyVars>>

\* save_log (audit_logger.py:157-169): created_at is read, then the file is opened for
\* writing and replaced; when it cannot be opened the exception leaves save_log
WriteLog(written) ==
    /\ files' = IF written
                THEN [files EXCEPT ![log_file] = LogData(clock, session_id, entries)]
                ELSE files
    /\ clock' = clock + 1

SaveLog ==
    /\ clock < MaxClock
    /\ \E written \in BOOLEAN :
        /\ WriteLog(written)
        /\ loggerCall' = [op |-> "save_log", written |-> written]
    /\ UNCHANGED <<entries, session_id, log_file, citeVars, confVars, engineVars, appVars, yoyVars>>

\* the dict get_session_summary returns (audit_logger.py:171-184); the two lists made
\* of a set have no order of their own and are kept as sets
SessionSummary ==
    LET types == {entries[i].event_type : i \in 1..Len(entries)}
    IN  [session_id |-> session_id,
         total_entries |-> Len(entries),
         event_counts |-> [t \in types |->
                              Cardinality({i \in 1..Len(entries) : entries[i].event_type = t})],
         tickers_processed |-> {entries[i].ticker : i \in 1..Len(entries)} \ {None},
         fiscal_years |-> {entries[i].fiscal_year : i \in 1..Len(entries)} \ {None},
         log_file |-> log_file]

\* the event timeline of generate_audit_report (audit_logger.py:198-217): what the
\* report shows of each entry, in order
AuditReport(now) ==
    [generated |-> now,
     total_events |-> Len(entries),
     timeline |-> [i \in 1..Len(entries) |->
                     [timestamp |-> entries[i].timestamp,
                      type |-> entries[i].event_type,
                      company |-> entries[i].ticker,
                      fiscal_year |-> entries[i].fiscal_year,
                      content_hash |-> entries[i].content_hash]]]

GetSessionSummary ==
    /\ loggerCall' = [op |-> "get_session_summary", result |-> SessionSummary]
    /\ UNCHANGED <<session_id, entries, log_file, files, clock>>
    /\ UNCHANGED <<citeVars, confVars, engineVars, appVars, yoyVars>>

GenerateAuditReport ==
    /\ clock < MaxClock
    /\ loggerCall' = [op |-> "generate_audit_report", result |-> AuditReport(clock)]
    /\ clock' = clock + 1
    /\ UNCHANGED <<session_id, entries, log_file, files>>
    /\ UNCHANGED <<citeVars, confVars, engineVars, appVars, yoyVars>>

InitAudit == CiteInit /\ ConfIdle /\ AuditInit /\ EngineIdle /\ AppIdle /\ YoYIdle
NextAudit ==
    \/ LogUserRequest \/ LogDataProvided \/ LogGeneration \/ LogRevision
    \/ SaveLog \/ GetSessionSummary \/ GenerateAuditReport
SpecAudit == InitAudit /\ [][NextAudit]_vars

----------------------------------------------------------------------------
(* RAGEngine, rag_engine.py:22-296, and the retrieval it consumes,
   document_processor.py:168-198.  A generate call runs from one invocation of
   an outside capability to the next: the retrieval, the fallback retrieval,
   the text generation. *)

\* section_key filter of the first retrieval (rag_engine.py:75, 163)
SectionKey(method) ==
    IF method = "generate_business_section" THEN "item_1_business" ELSE "item_7_mda"

\* what the vector store returns for a search filtered to the section
SectionResults(method) ==
    IF method = "generate_business_section" THEN {<<>>, <<DocA>>} ELSE {<<>>, <<DocB>>}
\* what it returns for the query of the method filtered to the ticker alone
DocE == Doc(Chars(4, "e"), Meta("NVIDIA Corporation", "Item 7 - MD&A", Date2024, 2))
DocF == Doc(Chars(6, "f"), Meta("NVIDIA Corporation", "Item 1 - Business", Date2024, 3))
FallbackResults(method) ==
    IF method = "generate_business_section" THEN {<<>>, <<DocD, DocBare>>}
    ELSE {<<>>, <<DocA, DocE, DocF>>}

\* financial_data arguments: None, or a dict
FinancialArgs ==
    {NoData,
     [given |-> TRUE, items |-> << <<K_Revenue, V_RevenueGrowth>> >>],
     [given |-> TRUE, items |-> << <<K_raw_input, V_Financials>>, <<K_Revenue, V_Amount>> >>]}

\* what llm.invoke does: it raises, or it returns a response with a content
Completions == {<<"D","r","a","f","t">>}
LlmResponses ==
    {[ok |-> FALSE, content |-> <<>>]} \cup {[ok |-> TRUE, content |-> c] : c \in Completions}

\* a caller enters generate_business_section or generate_mda_section
StartCall(method, ticker, fiscal_year, financial_data, include_citations) ==
    /\ call.pc = "idle"
    /\ call' = [pc |-> "retrieve", method |-> method, ticker |-> ticker,
                fiscal_year |-> fiscal_year, financial_data |-> financial_data,
                include_citations |-> include_citations,
                docs |-> <<>>, trace |-> <<>>, first_entry |-> Len(entries) + 1]
    /\ outcome' = NoOutcome
    /\ requests' = requests + 1

\* an exception leaves the method: nothing in RAGEngine catches it
Raise(error, trace) ==
    /\ outcome' = [kind |-> "raised", error |-> error,
                   call |-> [call EXCEPT !.pc = "raised", !.trace = trace]]
    /\ call' = IdleCall

\* "if not docs" (rag_engine.py:77, 165)
FallbackAlways(docs) == TRUE
FallbackNeeded(docs) == Len(docs) = 0

\* dict(financial_data) with "raw_input" popped (rag_engine.py:199-200)
DataForPrompt(items) == SelectSeq(items, LAMBDA it : it[1] # K_raw_input)
PoppedRawInput(items) ==
    IF K_raw_input \in DictKeys(items) THEN DictGet(items, K_raw_input) ELSE <<>>

\* "if financial_data" around log_data_provided (rag_engine.py:196, 209-214)
DataNeverProvided(financial_data) == FALSE
DataProvided(financial_data) == Len(financial_data.items) > 0

\* rag_engine.py:81-88 and, for the MD&A section, 196-214: the docs become the
\* last sources, the context is formatted and the data provided is logged
Prepare(docs, trace) ==
    /\ last_sources' = docs
    /\ IF call.include_citations
       THEN LET r == FormatCitationsForPrompt(CmNow, docs)
            IN  /\ citations' = r.citations
                /\ citation_counter' = r.citation_counter
                /\ cmOp' = [op |-> "format_citations_for_prompt",
                            counter_before |-> citation_counter,
                            documents |-> docs,
                            citation_map |-> r.citation_map,
                            formatted_parts |-> r.formatted_parts]
                /\ addReturns' = [fresh |-> FALSE, ids |-> <<>>]
       ELSE UNCHANGED citeVars
    /\ IF call.method = "generate_mda_section" /\ DataProvided(call.financial_data)
       THEN LET items == call.financial_data.items
                raw_input == PoppedRawInput(items)
            IN  /\ entries' = AppendEntry(entries,
                        DataProvidedEntry(clock, session_id,
                                          IF Len(raw_input) > 0 THEN raw_input ELSE DictStr(items),
                                          DataForPrompt(items), call.ticker, call.fiscal_year))
                /\ clock' = clock + 1
       ELSE UNCHANGED <<entries, clock>>
    /\ call' = [call EXCEPT !.pc = "llm", !.docs = docs, !.trace = trace]
    /\ UNCHANGED <<vector_store, last_confidence, outcome, requests, llmCompleted>>
    /\ UNCHANGED <<session_id, log_file, files, loggerCall, confVars, appVars, yoyVars>>

RetrieveEvent(section, raised, n) ==
    [cap |-> "retrieve", filter_section |-> section, raised |-> raised, returned |-> n]

\* retrieve_context(query, ticker, section=...) (rag_engine.py:75, 163)
Retrieve ==
    /\ call.pc = "retrieve"
    /\ IF vector_store = None
       THEN /\ Raise("ValueError",
                     Append(call.trace, RetrieveEvent(SectionKey(call.method), TRUE, 0)))
            /\ UNCHANGED <<vector_store, last_sources, last_confidence, requests, llmCompleted>>
            /\ UNCHANGED <<citeVars, confVars, auditVars, appVars, yoyVars>>
       ELSE \E docs \in SectionResults(call.method) :
              LET trace == Append(call.trace,
                                  RetrieveEvent(SectionKey(call.method), FALSE, Len(docs)))
              IN  IF FallbackNeeded(docs)
                  THEN /\ call' = [call EXCEPT !.pc = "fallback", !.trace = trace]
                       /\ UNCHANGED <<vector_store, last_sources, last_confidence, outcome,
                                      requests, llmCompleted>>
                       /\ UNCHANGED <<citeVars, confVars, auditVars, appVars, yoyVars>>
                  ELSE Prepare(docs, trace)

\* retrieve_context(query, ticker) (rag_engine.py:79, 166)
Fallback ==
    /\ call.pc = "fallback"
    /\ \E docs \in FallbackResults(call.method) :
        Prepare(docs, Append(call.trace, RetrieveEvent(None, FALSE, Len(docs))))

\* the generation entry is logged after llm.invoke has returned (rag_engine.py:109-131)
LogAlways(es, response, entry) == AppendEntry(es, entry)
LogCompleted(es, response, entry) == IF response.ok THEN AppendEntry(es, entry) ELSE es

\* section argument of calculate_confidence and log_generation
SectionOf(method) == IF method = "generate_business_section" THEN "business" ELSE "mda"
SectionStr(method) == IF method = "generate_business_section" THEN S_business ELSE S_mda

\* the metadata returned (rag_engine.py:134-143, 268-279)
Metadata(cites, score, docs) ==
    [citations |-> CitationsJson(cites),
     confidence |-> [overall |-> score.overall,
                     data_coverage |-> score.data_coverage,
                     source_quality |-> score.source_quality,
                     reasoning |-> score.reasoning],
     sources_count |-> Len(docs)]

\* llm.invoke and everything after it (rag_engine.py:109-145, 243-281)
InvokeLLM ==
    /\ call.pc = "llm"
    /\ \E response \in LlmResponses :
        LET provided_data == call.financial_data.items
            raw == ConfidenceLocals(provided_data, call.docs, SectionOf(call.method))
            trace == Append(call.trace, [cap |-> "llm", ok |-> response.ok])
        IN  \E ties \in TiesOf(raw) :
              LET score == ScoreOf(raw, provided_data, ties)
                  entry == GenerationEntry(clock, session_id, SectionStr(call.method),
                                           response.content, CitationsJson(citations),
                                           [overall |-> score.overall,
                                            data_coverage |-> score.data_coverage,
                                            source_quality |-> score.source_quality],
                                           call.ticker, call.fiscal_year)
              IN  /\ entries' = LogCompleted(entries, response, entry)
                  /\ IF response.ok
                     THEN /\ last_confidence' = [set |-> TRUE, score |-> score]
                          /\ clock' = clock + 1
                          /\ llmCompleted' = llmCompleted + 1
                          /\ outcome' = [kind |-> "returned",
                                         generated_text |-> response.content,
                                         metadata |-> Metadata(citations, score, call.docs),
                                         call |-> [call EXCEPT !.pc = "returned",
                                                               !.trace = trace]]
                          /\ call' = IdleCall
                     ELSE /\ Raise("GenerationError", trace)
                          /\ UNCHANGED <<last_confidence, clock, llmCompleted>>
    /\ UNCHANGED <<vector_store, last_sources, requests>>
    /\ UNCHANGED <<session_id, log_file, files, loggerCall, citeVars, confVars, appVars, yoyVars>>

\* a caller of the engine: the two generate methods with their arguments
Generate ==
    /\ requests < MaxRequests
    /\ \/ \E include_citations \in BOOLEAN :
            StartCall("generate_business_section", "NVDA", "2024", NoData, include_citations)
       \/ \E financial_data \in FinancialArgs, include_citations \in BOOLEAN :
            StartCall("generate_mda_section", "NVDA", "2024", financial_data, include_citations)
    /\ UNCHANGED <<vector_store, last_sources, last_confidence, llmCompleted>>
    /\ UNCHANGED <<citeVars, confVars, auditVars, appVars, yoyVars>>

\* RAGEngine.__init__: load_vector_store found the index on disk, or did not
EngineInit ==
    /\ vector_store \in {None, "loaded"}
    /\ last_sources = <<>>
    /\ last_confidence = [set |-> FALSE]
    /\ call = IdleCall
    /\ outcome = NoOutcome
    /\ requests = 0
    /\ llmCompleted = 0

Init == CiteInit /\ ConfIdle /\ AuditInit /\ AppIdle /\ EngineInit /\ YoYIdle
Next == Generate \/ Retrieve \/ Fallback \/ InvokeLLM
Spec == Init /\ [][Next]_vars

----------------------------------------------------------------------------
(* Two sessions (api.py:28, 101-104): each has its own TenKAssistant, whose
   RAGEngine builds its own CitationManager, ConfidenceCalculator, YoYAnalyzer
   and AuditLogger (rag_engine.py:18-35). The variables of the engine hold the
   session whose step runs, peer holds the other one; the audit directory, the
   time and the index on disk are the same for both. *)

\* what RAGEngine.__init__ and AuditLogger.__init__ build for a session
NewSession(sid) ==
    [citations |-> <<>>, citation_counter |-> 0, cmOp |-> [op |-> "init"],
     session_id |-> sid, entries |-> <<>>, log_file |-> "audit_" \o sid \o "_t0.json",
     last_sources |-> <<>>, last_confidence |-> [set |-> FALSE],
     call |-> IdleCall, outcome |-> NoOutcome]

\* the session whose step runs
Running ==
    [citations |-> citations, citation_counter |-> citation_counter, cmOp |-> cmOp,
     session_id |-> session_id, entries |-> entries, log_file |-> log_file,
     last_sources |-> last_sources, last_confidence |-> last_confidence,
     call |-> call, outcome |-> outcome]

\* self.citations is an attribute of the instance (citations.py:31-33)
SharedCitations(s) == citations
OwnCitations(s) == s.citations

\* the next step is one of the other session: the generate calls of the two
\* sessions interleave at every invocation of an outside capability
Switch ==
    /\ peer' = Running
    /\ citations' = OwnCitations(peer)
    /\ citation_counter' = peer.citation_counter
    /\ cmOp' = peer.cmOp
    /\ session_id' = peer.session_id
    /\ entries' = peer.entries
    /\ log_file' = peer.log_file
    /\ last_sources' = peer.last_sources
    /\ last_confidence' = peer.last_confidence
    /\ call' = peer.call
    /\ outcome' = peer.outcome
    /\ UNCHANGED <<addReturns, confVars, files, clock, loggerCall, vector_store, requests,
                   llmCompleted, app, yoyVars>>

\* the generate calls a TenKAssistant makes on its engine (assistant.py:303-307,
\* 343-349)
GenerateInSession ==
    /\ requests < MaxRequests
    /\ \/ StartCall("generate_business_section", "NVDA", "2024", NoData, TRUE)
       \/ StartCall("generate_mda_section", "NVDA", "2024",
                    [given |-> TRUE, items |-> << <<K_raw_input, V_Financials>>, <<K_Revenue, V_Amount>> >>], TRUE)
    /\ UNCHANGED <<vector_store, last_sources, last_confidence, llmCompleted>>
    /\ UNCHANGED <<citeVars, confVars, auditVars, appVars, yoyVars>>

InitSessions ==
    /\ CiteInit /\ ConfIdle /\ EngineIdle /\ YoYIdle
    /\ session_id = "s1"
    /\ entries = <<>>
    /\ log_file = "audit_s1_t0.json"
    /\ files = [f \in {"audit_s1_t0.json", "audit_s2_t0.json"} |-> [written |-> FALSE]]
    /\ clock = 1
    /\ loggerCall = [op |-> "init"]
    /\ app = [context |-> NewContext, pc |-> "idle", response |-> <<>>, failures |-> {},
              chats |-> 0, result |-> [status |-> 0]]
    /\ peer = NewSession("s2")
NextSessions == GenerateInSession \/ Retrieve \/ Fallback \/ InvokeLLM \/ Switch
SpecSessions == InitSessions /\ [][NextSessions]_vars

----------------------------------------------------------------------------
(* C1: format_citations_for_prompt numbers the passages 1..N in input order,
   whatever the manager held before: the returned map has exactly the keys
   1..N, map[k] is the citation of the k-th passage with source_id k, the
   k-th header names source k, and the manager holds exactly these N
   citations; and the add_citation calls made on a fresh or reset manager
   return 1, 2, ..., N. *)
C1_IdsAreOneToN ==
    /\ cmOp.op = "format_citations_for_prompt" =>
        LET N == Len(cmOp.documents)
            map == cmOp.citation_map
        IN  /\ DictKeys(map) = 1..N
            /\ Len(map) = N
            /\ Len(cmOp.formatted_parts) = N
            /\ \A k \in 1..N :
                /\ map[k][1] = k
                /\ DictGet(map, k).source_id = k
                /\ DictGet(map, k).excerpt = Excerpt(cmOp.documents[k].page_content)
                /\ DictGet(map, k).section
                      = MetaGet(cmOp.documents[k].metadata, "section", "Unknown")
                /\ DictGet(map, k).chunk_index
                      = MetaGet(cmOp.documents[k].metadata, "chunk_index", 0)
                /\ cmOp.formatted_parts[k].header.source = k
                /\ cmOp.formatted_parts[k].body = cmOp.documents[k].page_content
            /\ citations = [k \in 1..N |-> DictGet(map, k)]
            /\ citation_counter = N
    /\ addReturns.fresh =>
        /\ \A i \in 1..Len(addReturns.ids) : addReturns.ids[i] = i
        /\ citation_counter = Len(addReturns.ids)

\* format_citations_for_prompt ran with two passages on a manager that held three
\* citations
C1_Witness ==
    /\ cmOp.op = "format_citations_for_prompt"
    /\ cmOp.counter_before = 3
    /\ Len(cmOp.documents) = 2

----------------------------------------------------------------------------
(* C3: every ConfidenceScore returned by calculate_confidence has overall,
   data_coverage and source_quality within [0, 1] (0..100 hundredths), for
   every provided-data map, passage list and section kind. *)
C3_ScoresInUnitInterval ==
    confOut.returned =>
        /\ confOut.score.overall \in 0..100
        /\ confOut.score.data_coverage \in 0..100
        /\ confOut.score.source_quality \in 0..100

\* a score returned for more than 8 passages from more than 3 sections and data that
\* matches the whole checklist: every min(1.0, ...) cuts
C3_Witness ==
    /\ confOut.returned
    /\ Len(confIn.retrieved_docs) = 9
    /\ Cardinality({MetaGet(confIn.retrieved_docs[i].metadata, "section", "") :
                       i \in 1..Len(confIn.retrieved_docs)}) = 4
    /\ confOut.score.data_coverage = 100
    /\ confIn.section = "mda"

\* h hundredths is a nearest hundredth of the rational x: what round(x, 2) returns
NearestHundredth(h, x) ==
    LET diff == 100 * x.n - h * x.d
    IN  2 * (IF diff < 0 THEN -diff ELSE diff) <= x.d

\* 0.6 * dc + 0.4 * sq of two scores given in hundredths, as a rational
BlendOfFields(dc, sq) == Rat(6 * dc + 4 * sq, 1000)

\* no round() of the call was on a tie
NoTie(raw) == ~IsTie(raw.overall) /\ ~IsTie(raw.data_coverage) /\ ~IsTie(raw.source_quality)

(* C4 as claimed: the returned overall equals round(0.6 * data_coverage +
   0.4 * source_quality, 2) computed from the data_coverage and
   source_quality fields of the same returned score.  Stated for the calls
   in which no round() is on a tie, and accepting either neighbour for the
   round() of the claim, so that a violation never rests on how a tie is
   broken. *)
C4_OverallFromReturnedFields ==
    (confOut.returned /\ NoTie(confOut.score.raw)) =>
        NearestHundredth(confOut.score.overall,
                         BlendOfFields(confOut.score.data_coverage,
                                       confOut.score.source_quality))

(* C4 as amended: overall is round(0.6 * dc + 0.4 * sq, 2) of the unrounded
   coverage dc and quality sq of the same call, whose own roundings are the
   returned data_coverage and source_quality; it differs from
   round(0.6 * data_coverage + 0.4 * source_quality, 2) of the returned
   fields by at most 0.01. *)
C4_OverallFromUnroundedScores ==
    confOut.returned =>
        LET sc == confOut.score
            dc == CalculateDataCoverage(confIn.provided_data, confIn.section)
            sq == CalculateSourceQuality(confIn.retrieved_docs)
            blend == RAdd(RMul(dc, Rat(6, 10)), RMul(sq, Rat(4, 10)))
            fromFields == BlendOfFields(sc.data_coverage, sc.source_quality)
        IN  /\ NearestHundredth(sc.overall, blend)
            /\ NearestHundredth(sc.data_coverage, dc)
            /\ NearestHundredth(sc.source_quality, sq)
            /\ \E t \in {0, 1} :
                   sc.overall - Round2(fromFields, t) \in {-1, 0, 1}

\* a score whose overall is not the rounding of the blend of its two returned fields
C4_Witness ==
    /\ confOut.returned
    /\ NoTie(confOut.score.raw)
    /\ ~NearestHundredth(confOut.score.overall,
                         BlendOfFields(confOut.score.data_coverage,
                                       confOut.score.source_quality))

(* C5: with an empty provided-data map data_coverage is exactly 0.3, for
   section kind 'mda' and for section kind 'business', whatever passages
   were retrieved. *)
C5_EmptyDataCoverage ==
    (confOut.returned /\ Len(confIn.provided_data) = 0) =>
        /\ confOut.score.data_coverage = 30
        /\ confOut.score.raw.data_coverage = Rat(3, 10)

\* a score returned for no data, section 'business' and three retrieved passages
C5_Witness ==
    /\ confOut.returned
    /\ Len(confIn.provided_data) = 0
    /\ confIn.section = "business"
    /\ Len(confIn.retrieved_docs) = 3

----------------------------------------------------------------------------
(* C10: in every reachable state of an AuditLogger every entry's content_hash is
   the hash of that entry's content, and the hash is a function of the key/value
   pairs of the content alone: two entries whose contents hold the same pairs,
   in whatever key order, at whatever timestamp and position, carry the same
   hash, and two entries whose contents differ in a key or a value carry
   different hashes. *)

\* the key/value pairs of a content, nested dicts included, without their order
RECURSIVE Pairs(_)
Pairs(value) ==
    IF value.t = "dict"
    THEN [t |-> "dict", v |-> {<<value.v[i][1], Pairs(value.v[i][2])>> : i \in 1..Len(value.v)}]
    ELSE value

C10_HashIsFunctionOfContent ==
    /\ \A i \in 1..Len(entries) : entries[i].content_hash = HashContent(entries[i].content)
    /\ \A i, j \in 1..Len(entries) :
        (Pairs(entries[i].content) = Pairs(entries[j].content))
            <=> (entries[i].content_hash = entries[j].content_hash)

\* C10 witness: two entries logged at different times whose parsed data hold the same
\* two fields in different insertion order
C10_Witness ==
    /\ Len(entries) = 2
    /\ entries[1].event_type = "data_provided"
    /\ entries[2].event_type = "data_provided"
    /\ entries[1].timestamp # entries[2].timestamp
    /\ entries[1].content # entries[2].content
    /\ Len(entries[1].content.v[2][2].v) = 2
    /\ Pairs(entries[1].content) = Pairs(entries[2].content)
    /\ entries[1].content_hash = entries[2].content_hash

----------------------------------------------------------------------------
(* TenKAssistant, assistant.py:38-428, behind the chat endpoint, api.py:95-115.
   A chat request runs process_message; where that calls a generate method of
   its RAGEngine the request waits for the call to end and then goes on. *)

\* config.py:32-41
TARGET_COMPANIES ==
    << [ticker |-> "NVDA", symbol |-> <<"N","V","D","A">>, name |-> <<"N","V","I","D","I","A"," ","C","o","r","p","o","r","a","t","i","o","n">>],
       [ticker |-> "MSFT", symbol |-> <<"M","S","F","T">>, name |-> <<"M","i","c","r","o","s","o","f","t"," ","C","o","r","p","o","r","a","t","i","o","n">>],
       [ticker |-> "KO", symbol |-> <<"K","O">>, name |-> <<"T","h","e"," ","C","o","c","a","-","C","o","l","a"," ","C","o","m","p","a","n","y">>],
       [ticker |-> "NKE", symbol |-> <<"N","K","E">>, name |-> <<"N","I","K","E",","," ","I","n","c",".">>],
       [ticker |-> "AMZN", symbol |-> <<"A","M","Z","N">>, name |-> <<"A","m","a","z","o","n",".","c","o","m",","," ","I","n","c",".">>],
       [ticker |-> "DASH", symbol |-> <<"D","A","S","H">>, name |-> <<"D","o","o","r","D","a","s","h",","," ","I","n","c",".">>],
       [ticker |-> "TJX", symbol |-> <<"T","J","X">>, name |-> <<"T","h","e"," ","T","J","X"," ","C","o","m","p","a","n","i","e","s",","," ","I","n","c",".">>],
       [ticker |-> "DRI", symbol |-> <<"D","R","I">>, name |-> <<"D","a","r","d","e","n"," ","R","e","s","t","a","u","r","a","n","t","s",","," ","I","n","c",".">>] >>

\* str.upper() and str.strip() on ASCII text
UpperChar(c) ==
    LET k == CharCode(c) IN IF k >= 97 /\ k <= 122 THEN Ascii[k - 63] ELSE c
Upper(s) == [i \in 1..Len(s) |-> UpperChar(s[i])]
RECURSIVE LStrip(_)
LStrip(s) == IF Len(s) > 0 /\ s[1] = " " THEN LStrip(Tail(s)) ELSE s
RECURSIVE RStrip(_)
RStrip(s) == IF Len(s) > 0 /\ s[Len(s)] = " " THEN RStrip(SubSeq(s, 1, Len(s) - 1)) ELSE s
Strip(s) == RStrip(LStrip(s))
ContainsAny(s, words) == \E w \in words : Contains(s, w)

\* _parse_ticker (assistant.py:77-85): the first company whose ticker or name occurs
ParseTicker(text) ==
    LET text_upper == Upper(text)
        hits == {i \in 1..Len(TARGET_COMPANIES) :
                    \/ Contains(text_upper, TARGET_COMPANIES[i].symbol)
                    \/ Contains(text_upper, Upper(TARGET_COMPANIES[i].name))}
    IN  IF hits = {} THEN None
        ELSE TARGET_COMPANIES[CHOOSE i \in hits : \A j \in hits : i <= j].ticker
CompanyName(ticker) ==
    TARGET_COMPANIES[CHOOSE i \in 1..Len(TARGET_COMPANIES) : TARGET_COMPANIES[i].ticker = ticker].name

\* _parse_year (assistant.py:87-93): the first match of 20\d{2}
IsDigit(c) == CharCode(c) >= 48 /\ CharCode(c) <= 57
ParseYear(text) ==
    LET hits == {i \in 1..(Len(text) - 3) :
                    /\ text[i] = "2" /\ text[i + 1] = "0"
                    /\ IsDigit(text[i + 2]) /\ IsDigit(text[i + 3])}
    IN  IF hits = {} THEN None
        ELSE LET i == CHOOSE i \in hits : \A j \in hits : i <= j IN SubSeq(text, i, i + 3)

\* the marks of a table and the words the patterns of _parse_financial_data start
\* with (assistant.py:130, 135, 152-160)
TableMarks == {<<"<","t","a","b","l","e">>, <<"<","t","r">>, <<"|">>}
PatternWords ==
    {<<"r","e","v","e","n","u","e">>, <<"s","a","l","e","s">>, <<"g","r","o","w","t","h">>, <<"i","n","c","r","e","a","s","e">>, <<"d","e","c","r","e","a","s","e">>, <<"o","p","e","r","a","t","i","n","g"," ","i","n","c","o","m","e">>,
     <<"n","e","t"," ","i","n","c","o","m","e">>, <<"e","b","i","t","d","a">>, <<"c","a","s","h"," ","f","l","o","w">>, <<"f","c","f">>, <<"m","a","r","g","i","n">>, <<"s","e","g","m","e","n","t">>, <<"d","i","v","i","s","i","o","n">>,
     <<"l","a","u","n","c","h","e","d">>, <<"d","i","s","c","o","n","t","i","n","u","e","d">>, <<"a","c","q","u","i","r","e","d">>, <<"p","a","r","t","n","e","r","e","d">>}
PlainText(text) == ~ContainsAny(Lower(text), TableMarks \cup PatternWords)

\* _parse_financial_data (assistant.py:125-177) of a plain text: no table is parsed
\* and no pattern matches, so line 173-175 alone adds a key
ParseFinancialData(text) ==
    IF Len(Strip(text)) > 0 THEN << <<K_raw_input, Strip(text)>> >> ELSE <<>>

\* dict.update
RECURSIVE DictUpdate(_, _)
DictUpdate(d, u) ==
    IF Len(u) = 0 THEN d
    ELSE LET k == u[1][1]
             d1 == IF k \in DictKeys(d)
                   THEN [i \in 1..Len(d) |-> IF d[i][1] = k THEN u[1] ELSE d[i]]
                   ELSE Append(d, u[1])
         IN  DictUpdate(d1, Tail(u))

\* what the user types
UserMessages ==
    {m \in {<<"D","r","a","f","t"," ","t","h","e"," ","1","0","-","K"," ","f","o","r"," ","N","V","D","A"," ","2","0","2","4">>, <<"h","e","l","l","o">>, <<"N","V","D","A">>, <<"r","e","v","i","s","e"," ","i","t">>} : PlainText(m)}

\* a piece of a response or of a message: what it is, and the text that varies in it
Piece(part, text) == [part |-> part, text |-> text]

\* _add_message (assistant.py:73-75)
AddMessage(ctx, role, content) ==
    [ctx EXCEPT !.messages = Append(@, [role |-> role, content |-> content])]

WithCompanyName(ctx, ticker) == [ctx EXCEPT !.company_name = CompanyName(ticker)]
WithTicker(ctx, ticker) == [ctx EXCEPT !.ticker = ticker, !.company_name = CompanyName(ticker)]
WithYear(ctx, year) == [ctx EXCEPT !.fiscal_year = year, !.state = "generating_business"]
AskYear(ctx) == [do |-> "respond", ctx |-> [ctx EXCEPT !.state = "awaiting_year"],
                 response |-> <<Piece("ask_for_year", ctx.company_name)>>]
WithData(ctx, parsed_data) ==
    [ctx EXCEPT !.financial_data = DictUpdate(@, parsed_data)]

\* _handle_general_query (assistant.py:385-428) up to the call it ends with
GeneralQuery(ctx, query) ==
    LET query_lower == Lower(query)
        ticker == ParseTicker(query)
        year == ParseYear(query)
        parsed_data == ParseFinancialData(query)
    IN  IF ContainsAny(query_lower, {<<"g","e","n","e","r","a","t","e">>, <<"c","r","e","a","t","e">>, <<"d","r","a","f","t">>, <<"n","e","w">>}) /\ ticker # None
        THEN IF year # None
             THEN [do |-> "business", ctx |-> WithYear(WithTicker(NewContext, ticker), year)]
             ELSE AskYear(WithTicker(NewContext, ticker))
        ELSE IF /\ ctx.state = "complete"
                /\ ContainsAny(query_lower, {<<"r","e","v","i","s","e">>, <<"u","p","d","a","t","e">>, <<"c","h","a","n","g","e">>, <<"a","d","d">>})
                /\ Len(parsed_data) > 0
        THEN [do |-> "mda", ctx |-> WithData(ctx, parsed_data)]
        ELSE [do |-> "llm", ctx |-> ctx]

\* the state machine of process_message (assistant.py:235-284) up to the call it ends with
Dispatch(ctx, user_message) ==
    LET ticker == ParseTicker(user_message)
        year == ParseYear(user_message)
    IN  CASE ctx.state = "initial" ->
                IF ticker # None
                THEN IF year # None
                     THEN [do |-> "business", ctx |-> WithYear(WithTicker(ctx, ticker), year)]
                     ELSE AskYear(WithTicker(ctx, ticker))
                ELSE [do |-> "respond", ctx |-> [ctx EXCEPT !.state = "awaiting_company"],
                      response |-> <<Piece("ask_for_company", <<>>)>>]
          [] ctx.state = "awaiting_company" ->
                IF ticker # None
                THEN AskYear(WithTicker(ctx, ticker))
                ELSE [do |-> "respond", ctx |-> ctx,
                      response |-> <<Piece("unknown_company", <<>>)>>]
          [] ctx.state = "awaiting_year" ->
                IF year # None
                THEN [do |-> "business", ctx |-> WithYear(ctx, year)]
                ELSE [do |-> "respond", ctx |-> ctx,
                      response |-> <<Piece("specify_year", <<>>)>>]
          [] ctx.state = "awaiting_financial_data" ->
                [do |-> "mda", ctx |-> WithData(ctx, ParseFinancialData(user_message))]
          [] OTHER -> GeneralQuery(ctx, user_message)

\* process_message returns and chat answers 200 (assistant.py:286-287, api.py:108-113)
Finish(ctx, response, failures) ==
    app' = [context |-> AddMessage(ctx, "assistant", response),
            pc |-> "idle", response |-> <<>>, failures |-> failures,
            chats |-> app.chats + 1,
            result |-> [status |-> 200, response |-> response, state |-> ctx.state,
                        ticker |-> ctx.ticker, fiscal_year |-> ctx.fiscal_year]]

\* an exception leaves process_message and chat answers 500 (api.py:114-115)
Fail(ctx, failures, detail) ==
    app' = [context |-> ctx, pc |-> "idle", response |-> <<>>, failures |-> failures,
            chats |-> app.chats + 1,
            result |-> [status |-> 500, detail |-> detail]]

\* str(e) of the exceptions of the model
ErrorText(error) ==
    IF error = "ValueError" THEN <<"N","o"," ","v","e","c","t","o","r"," ","s","t","o","r","e"," ","a","v","a","i","l","a","b","l","e">> ELSE <<"g","e","n","e","r","a","t","i","o","n"," ","f","a","i","l","e","d">>
FailureOf(error) == IF error = "ValueError" THEN "retrieval" ELSE "generation"

\* POST /chat (api.py:95-115): process_message up to its return, or up to the
\* generate call it makes
Chat ==
    /\ app.pc = "idle"
    /\ call.pc = "idle"
    /\ app.chats < MaxChats
    /\ \E user_message \in UserMessages :
        LET plan == Dispatch(AddMessage(app.context, "user", <<Piece("text", user_message)>>),
                             user_message)
        IN  CASE plan.do = "respond" ->
                    /\ Finish(plan.ctx, plan.response, {})
                    /\ UNCHANGED engineVars
              [] plan.do = "llm" ->
                    /\ \E response \in LlmResponses :
                          IF response.ok
                          THEN Finish(plan.ctx, <<Piece("reply", response.content)>>, {})
                          ELSE Fail(plan.ctx, {"generation"}, ErrorText("GenerationError"))
                    /\ UNCHANGED engineVars
              [] plan.do = "business" ->
                    /\ app' = [app EXCEPT !.context = plan.ctx, !.pc = "business",
                                          !.response = <<Piece("business_header", <<>>)>>,
                                          !.failures = {}, !.result = [status |-> 0]]
                    /\ StartCall("generate_business_section", plan.ctx.ticker,
                                 plan.ctx.fiscal_year, NoData, TRUE)
                    /\ UNCHANGED <<vector_store, last_sources, last_confidence, llmCompleted>>
              [] OTHER ->
                    /\ app' = [app EXCEPT !.context = plan.ctx, !.pc = "mda",
                                          !.response = <<Piece("mda_header", <<>>)>>,
                                          !.failures = {}, !.result = [status |-> 0]]
                    /\ StartCall("generate_mda_section", plan.ctx.ticker,
                                 plan.ctx.fiscal_year,
                                 [given |-> TRUE, items |-> plan.ctx.financial_data], TRUE)
                    /\ UNCHANGED <<vector_store, last_sources, last_confidence, llmCompleted>>
    /\ UNCHANGED <<peer, citeVars, confVars, auditVars, yoyVars>>

\* get_citation_references and get_confidence_indicator appended to a response
\* (assistant.py:312-315, 358-361)
References ==
    (IF Len(citations) > 0 THEN <<Piece("citation_references", <<>>)>> ELSE <<>>)
    \o <<Piece("confidence_indicator", <<>>)>>

\* _generate_and_ask_financial after generate_business_section has ended
\* (assistant.py:301-330): an exception of the call becomes a note in the response
BusinessDone ==
    /\ app.pc = "business"
    /\ call.pc = "idle"
    /\ outcome.kind # "none"
    /\ LET ctx == app.context
       IN  IF outcome.kind = "returned"
           THEN Finish([ctx EXCEPT !.generated_sections.business =
                                       [set |-> TRUE, text |-> outcome.generated_text,
                                        metadata |-> outcome.metadata],
                                   !.state = "awaiting_financial_data"],
                       app.response \o <<Piece("business_section", outcome.generated_text)>>
                           \o References \o <<Piece("ask_for_financial_data", <<>>)>>,
                       {})
           ELSE Finish([ctx EXCEPT !.state = "awaiting_financial_data"],
                       app.response \o <<Piece("business_error", ErrorText(outcome.error)),
                                         Piece("ask_for_financial_data", <<>>)>>,
                       {FailureOf(outcome.error)})
    /\ UNCHANGED <<peer, citeVars, confVars, auditVars, engineVars, yoyVars>>

\* _generate_mda_section after generate_mda_section has ended (assistant.py:341-383):
\* the audit log is saved, and an exception of the call or of the save becomes a note
CompletedOnSuccess(ctx) ==
    IF outcome.kind = "returned" THEN [ctx EXCEPT !.state = "complete"] ELSE ctx
Completed(ctx) == [ctx EXCEPT !.state = "complete"]
MdaDone ==
    /\ app.pc = "mda"
    /\ call.pc = "idle"
    /\ outcome.kind # "none"
    /\ LET ctx == Completed(app.context)
       IN  IF outcome.kind = "returned"
           THEN \E written \in BOOLEAN :
                  LET done == [ctx EXCEPT !.generated_sections.mda =
                                              [set |-> TRUE, text |-> outcome.generated_text,
                                               metadata |-> outcome.metadata]]
                      body == app.response \o <<Piece("mda_section", outcome.generated_text)>>
                                  \o References
                  IN  /\ WriteLog(written)
                      /\ IF written
                         THEN Finish(done, body \o <<Piece("audit_log_saved", <<>>),
                                                     Piece("complete", <<>>)>>, {})
                         ELSE Finish(done, body \o <<Piece("mda_error", <<"N","o"," ","s","u","c","h"," ","f","i","l","e">>),
                                                     Piece("complete", <<>>)>>, {"save_log"})
           ELSE /\ Finish(ctx, app.response \o <<Piece("mda_error", ErrorText(outcome.error)),
                                                 Piece("complete", <<>>)>>,
                          {FailureOf(outcome.error)})
                /\ UNCHANGED <<files, clock>>
    /\ UNCHANGED <<peer, session_id, entries, log_file, loggerCall, citeVars, confVars, engineVars, yoyVars>>

\* POST /reset (api.py:133-139) for the session: TenKAssistant.reset
\* (assistant.py:69-71) replaces the context; the engine and its log stay. Resetting a
\* fresh context changes nothing and is left out
ResetSession ==
    /\ app.pc = "idle"
    /\ app.chats < MaxChats
    /\ app.context # NewContext
    /\ app' = [app EXCEPT !.context = NewContext, !.failures = {}, !.result = [status |-> 0],
                          !.chats = @ + 1]
    /\ UNCHANGED <<peer, citeVars, confVars, auditVars, engineVars, yoyVars>>

InitApp == CiteInit /\ ConfIdle /\ AuditInit /\ AppIdle /\ EngineInit /\ YoYIdle
NextApp == Chat \/ Retrieve \/ Fallback \/ InvokeLLM \/ BusinessDone \/ MdaDone \/ ResetSession
SpecApp == InitApp /\ [][NextApp]_vars

----------------------------------------------------------------------------
(* YoYAnalyzer, yoy_analysis.py:19-182. Magnitudes are exact rationals n/d
   with d > 0; the value strings of the model hold no exponent, underscore,
   'inf' or 'nan', so float() either reads a plain signed decimal or fails. *)

RNeg(x) == [n |-> 0 - x.n, d |-> x.d]
RSub(x, y) == RAdd(x, RNeg(y))
RAbs(x) == IF x.n < 0 THEN RNeg(x) ELSE x
RDiv(x, y) == IF y.n < 0 THEN Rat(0 - (x.n * y.d), 0 - (x.d * y.n)) ELSE Rat(x.n * y.d, x.d * y.n)
RHundred == Rat(100, 1)

\* round(x, ndigits) counted in units of 1/scale (scale = 10^ndigits); `tie` (0 or 1)
\* is the neighbour taken when x lies half-way between two such units
IsTieAt(x, scale) == (2 * ((scale * x.n) % x.d)) = x.d
RoundTo(x, scale, tie) ==
    LET fl == (scale * x.n) \div x.d
        r2 == 2 * ((scale * x.n) % x.d)
    IN  Rat(IF r2 > x.d THEN fl + 1 ELSE IF r2 < x.d THEN fl ELSE fl + tie, scale)

\* str.replace(old, "") for a set of characters and for a substring; str.endswith
RemoveChars(s, chars) == SelectSeq(s, LAMBDA c : c \notin chars)
RECURSIVE RemoveAll(_, _)
RemoveAll(s, sub) ==
    IF Len(s) < Len(sub) THEN s
    ELSE IF SubSeq(s, 1, Len(sub)) = sub THEN RemoveAll(SubSeq(s, Len(sub) + 1, Len(s)), sub)
    ELSE <<s[1]>> \o RemoveAll(Tail(s), sub)
EndsWith(s, c) == Len(s) > 0 /\ s[Len(s)] = c

\* re.sub(r'[Bb]illion|[Bb]$', '', s) and re.sub(r'[Mm]illion|[Mm]$', '', s):
\* `letters` is the character class the pattern starts with
RECURSIVE SubUnit(_, _)
SubUnit(s, letters) ==
    IF Len(s) = 0 THEN s
    ELSE IF s[1] \in letters /\ Len(s) >= 7 /\ SubSeq(s, 2, 7) = <<"i","l","l","i","o","n">>
         THEN SubUnit(SubSeq(s, 8, Len(s)), letters)
    ELSE IF s[1] \in letters /\ Len(s) = 1 THEN <<>>
    ELSE <<s[1]>> \o SubUnit(Tail(s), letters)

\* float(text) on a stripped text: an optional sign, then digits with at most one
\* point and at least one digit; anything else is a ValueError
RECURSIVE DigitsToInt(_)
DigitsToInt(s) ==
    IF Len(s) = 0 THEN 0
    ELSE 10 * DigitsToInt(SubSeq(s, 1, Len(s) - 1)) + (CharCode(s[Len(s)]) - 48)
RECURSIVE Pow10(_)
Pow10(k) == IF k = 0 THEN 1 ELSE 10 * Pow10(k - 1)
ParseFloat(text) ==
    LET signed == Len(text) > 0 /\ text[1] \in {"+", "-"}
        body == IF signed THEN Tail(text) ELSE text
        points == {i \in 1..Len(body) : body[i] = "."}
        digits == RemoveChars(body, {"."})
        wellFormed == /\ Len(digits) > 0
                      /\ \A i \in 1..Len(digits) : IsDigit(digits[i])
                      /\ Cardinality(points) <= 1
        decimals == IF points = {} THEN 0 ELSE Len(body) - (CHOOSE i \in points : TRUE)
        magnitude == Rat(DigitsToInt(digits), Pow10(decimals))
    IN  IF ~wellFormed THEN [ok |-> FALSE]
        ELSE [ok |-> TRUE,
              value |-> IF signed /\ text[1] = "-" THEN RNeg(magnitude) ELSE magnitude]

\* the try/except around float() (yoy_analysis.py:49-54): a ValueError gives 0.0
FloatUnguarded(parsed) ==
    IF parsed.ok THEN [raised |-> FALSE, value |-> parsed.value]
    ELSE [raised |-> TRUE, value |-> RZero]
FloatOrZero(parsed) ==
    IF parsed.ok THEN [raised |-> FALSE, value |-> parsed.value]
    ELSE [raised |-> FALSE, value |-> RZero]

\* the unit branch of parse_value (yoy_analysis.py:36-47): the unit and the text left
UnitOf(s) ==
    IF Contains(Lower(s), <<"b","i","l","l","i","o","n">>) \/ EndsWith(s, "B")
    THEN [unit |-> "B", rest |-> SubUnit(s, {"B", "b"})]
    ELSE IF Contains(Lower(s), <<"m","i","l","l","i","o","n">>) \/ EndsWith(s, "M")
    THEN [unit |-> "M", rest |-> SubUnit(s, {"M", "m"})]
    ELSE IF Contains(s, <<"%">>)
    THEN [unit |-> "%", rest |-> RemoveChars(s, {"%"})]
    ELSE [unit |-> "", rest |-> s]

\* parse_value (yoy_analysis.py:25-56)
ParseValue(value_str) ==
    IF Len(value_str) = 0 THEN [raised |-> FALSE, value |-> RZero, unit |-> ""]
    ELSE LET cleaned == RemoveChars(Strip(value_str), {"$", ","})
             u == UnitOf(cleaned)
             negated == IF Contains(u.rest, <<"(">>) /\ Contains(u.rest, <<")">>)
                        THEN <<"-">> \o RemoveChars(u.rest, {"(", ")"})
                        ELSE u.rest
             f == FloatOrZero(ParseFloat(Strip(negated)))
         IN  [raised |-> f.raised, value |-> f.value, unit |-> u.unit]

\* analyze_data (yoy_analysis.py:58-107) -------------------------------------
PriorMarker == <<"(","P","r","i","o","r"," ","Y","e","a","r",")">>
PriorSuffix == <<" ","(","P","r","i","o","r"," ","Y","e","a","r",")">>

\* current_data and prior_data after the first loop (yoy_analysis.py:63-75)
CurrentData(financial_data) ==
    SelectSeq(financial_data, LAMBDA kv : kv[1] # K_raw_input /\ ~Contains(kv[1], PriorMarker))
PriorData(financial_data) ==
    LET priors == SelectSeq(financial_data,
                            LAMBDA kv : kv[1] # K_raw_input /\ Contains(kv[1], PriorMarker))
    IN  [i \in 1..Len(priors) |-> <<RemoveAll(priors[i][1], PriorSuffix), priors[i][2]>>]
InPrior(prior_data, name) == \E i \in 1..Len(prior_data) : prior_data[i][1] = name
PriorOf(prior_data, name) ==
    LET hits == {i \in 1..Len(prior_data) : prior_data[i][1] = name}
    IN  prior_data[CHOOSE i \in hits : \A j \in hits : j <= i][2]

\* change_abs and change_pct (yoy_analysis.py:88-89), for a prior that is not zero
ChangeAbs(current_val, prior_val) == RSub(current_val, prior_val)
ChangePctOfCurrent(current_val, prior_val) ==
    IF current_val = RZero THEN RZero
    ELSE RMul(RDiv(RSub(current_val, prior_val), RAbs(current_val)), RHundred)
ChangePct(current_val, prior_val) ==
    RMul(RDiv(RSub(current_val, prior_val), RAbs(prior_val)), RHundred)

\* the locals of one pass of the second loop (yoy_analysis.py:78-94), before rounding
MetricLocals(metric_name, current_value_str, prior_data) ==
    LET current == ParseValue(current_value_str)
        has_prior == InPrior(prior_data, metric_name)
        prior == IF has_prior THEN ParseValue(PriorOf(prior_data, metric_name))
                 ELSE [raised |-> FALSE, value |-> RZero, unit |-> ""]
        computed == has_prior /\ prior.value # RZero
        change_abs == IF computed THEN ChangeAbs(current.value, prior.value) ELSE RZero
        change_pct == IF computed THEN ChangePct(current.value, prior.value) ELSE RZero
    IN  [name |-> metric_name, current |-> current, has_prior |-> has_prior, prior |-> prior,
         computed |-> computed, change_abs |-> change_abs, change_pct |-> change_pct,
         raised |-> current.raised \/ prior.raised]

\* trend (yoy_analysis.py:80, 91-94), of the change before rounding
TrendOf(l, tie) ==
    IF l.computed /\ RLt(ROne, l.change_pct) THEN "up"
    ELSE IF l.computed /\ RLt(l.change_pct, RNeg(ROne)) THEN "down"
    ELSE "flat"

\* the YoYMetric appended (yoy_analysis.py:96-105); tie[1] and tie[2] settle the two roundings
UnitOfPrior(l) == IF l.has_prior THEN l.prior.unit ELSE l.current.unit
MetricUnit(l) == l.current.unit
AlwaysChange(l) == TRUE
HasChange(l) == l.computed
YoYMetric(l, tie) ==
    [name |-> l.name,
     current_value |-> l.current.value,
     prior_value |-> IF l.has_prior THEN [set |-> TRUE, value |-> l.prior.value]
                     ELSE [set |-> FALSE],
     unit |-> MetricUnit(l),
     change_absolute |-> IF HasChange(l) THEN [set |-> TRUE, value |-> RoundTo(l.change_abs, 100, tie[1])]
                         ELSE [set |-> FALSE],
     change_percent |-> IF HasChange(l) THEN [set |-> TRUE, value |-> RoundTo(l.change_pct, 10, tie[2])]
                        ELSE [set |-> FALSE],
     trend |-> TrendOf(l, tie[2])]

\* the locals of every pass, in the order of current_data
AllLocals(financial_data) ==
    LET current_data == CurrentData(financial_data)
        prior_data == PriorData(financial_data)
    IN  [i \in 1..Len(current_data) |->
            MetricLocals(current_data[i][1], current_data[i][2], prior_data)]

\* the roundings that are ties may go either way; the others have one outcome
TieChoices(locals) ==
    {t \in [1..Len(locals) -> {<<0, 0>>, <<0, 1>>, <<1, 0>>, <<1, 1>>}] :
        \A i \in 1..Len(locals) :
            /\ (t[i][1] = 1 => (locals[i].computed /\ IsTieAt(locals[i].change_abs, 100)))
            /\ (t[i][2] = 1 => (locals[i].computed /\ IsTieAt(locals[i].change_pct, 10)))}

\* the passes made before one raises: all of them when none does
PassesMade(locals) ==
    LET raising == {i \in 1..Len(locals) : locals[i].raised}
    IN  IF raising = {} THEN Len(locals)
        ELSE (CHOOSE i \in raising : \A j \in raising : i <= j) - 1

\* self.metrics after analyze_data: emptied first, then one metric appended per pass
ExtendMetrics(old, new) == old \o new
ReplaceMetrics(old, new) == new
AnalyzedMetrics(locals, ties) == [i \in 1..PassesMade(locals) |-> YoYMetric(locals[i], ties[i])]

\* the maps given to analyze_data: ordered label -> value string, labels distinct
V_LossMillions == <<"(","5",".","2",")"," ","m","i","l","l","i","o","n">>
K_Margin == <<"G","r","o","s","s"," ","M","a","r","g","i","n">>
YoYFields ==
    ({K_Revenue} \X {V_Amount, <<"1","0","1",".","0","4">>, V_LossMillions})
    \cup ({K_RevenuePrior} \X {V_AmountPrior, <<"1","0","0">>, <<"0">>})
    \cup ({K_Margin} \X {<<"N","/","A">>})
    \cup ({K_raw_input} \X {V_RevenueGrowth})
FinancialInputs ==
    {d \in SeqsUpTo(YoYFields, MaxYoYFields) :
        \A i, j \in 1..Len(d) : i # j => d[i][1] # d[j][1]}

\* the value strings given to parse_value directly
ValueStrings ==
    {<<>>, <<" "," ">>, V_Amount, V_AmountPrior, <<"1","2"," ","B","I","L","L","I","O","N">>, <<"B">>, <<"5","B">>, <<"5","b">>, <<"1",",","2","0","0","M">>,
     <<"5","0","0"," ","m","i","l","l","i","o","n">>, <<"3"," ","M","i","l","l","i","o","n">>, <<"5"," ","m">>, <<"1","5","%">>, <<"1","%","5">>, <<"%">>, <<"(","5",".","2",")">>, <<"(","3">>, <<"(","-","5",")">>,
     <<"N","/","A">>, <<"-","7",".","5">>, <<"+","2">>, <<".","5">>, <<"5",".">>, <<".">>, <<"0">>, <<"1","0","1",".","0","4">>, <<"1",".","2",".","3">>, <<"$">>, <<" ","4","2"," ">>}

\* what the two methods compute for each input of the model
LocalsOf == [financial_data \in FinancialInputs |-> AllLocals(financial_data)]
OutcomesOf ==
    [financial_data \in FinancialInputs |->
        LET locals == LocalsOf[financial_data]
        IN  {[metrics |-> AnalyzedMetrics(locals, ties),
              raised |-> PassesMade(locals) < Len(locals)] : ties \in TieChoices(locals)}]
ParsedOf == [value_str \in ValueStrings |-> ParseValue(value_str)]

AnalyzeData ==
    /\ yoyCall.n < MaxAnalyses
    /\ \E financial_data \in FinancialInputs :
        \E result \in OutcomesOf[financial_data] :
            /\ metrics' = ReplaceMetrics(metrics, result.metrics)
            /\ yoyCall' = [op |-> "analyze_data", n |-> yoyCall.n + 1,
                           financial_data |-> financial_data, raised |-> result.raised]
    /\ UNCHANGED <<citeVars, confVars, auditVars, engineVars, appVars>>

CallParseValue ==
    /\ yoyCall.n < MaxAnalyses
    /\ \E value_str \in ValueStrings :
        yoyCall' = [op |-> "parse_value", n |-> yoyCall.n + 1, value_str |-> value_str,
                    result |-> ParsedOf[value_str]]
    /\ UNCHANGED <<metrics, citeVars, confVars, auditVars, engineVars, appVars>>

\* generate_yoy_narrative (yoy_analysis.py:136-167).  A clause is kept as its kind (its
\* fixed words) and the metrics it names with their change_percent; the narrative is the
\* clauses in this order joined by "; ".  `m.change_percent and ...` is false for None
\* and for 0.0.
Truthy(change_percent) == change_percent.set /\ change_percent.value # RZero
Significant(ms, up) ==
    SelectSeq(ms, LAMBDA m : /\ Truthy(m.change_percent)
                             /\ IF up THEN RLt(Rat(10, 1), m.change_percent.value)
                                ELSE RLt(m.change_percent.value, Rat(-10, 1)))
FirstThree(ms) == SubSeq(ms, 1, IF Len(ms) < 3 THEN Len(ms) ELSE 3)
ClauseItems(ms) == [i \in 1..Len(ms) |-> [name |-> ms[i].name, pct |-> ms[i].change_percent.value]]
RevenueClause(ms) ==
    LET revenue_metrics == SelectSeq(ms, LAMBDA m : Contains(Lower(m.name), Lower(K_Revenue)))
    IN  IF Len(revenue_metrics) = 0 \/ ~Truthy(revenue_metrics[1].change_percent) THEN <<>>
        ELSE LET rev == revenue_metrics[1]
                 pct == rev.change_percent.value
             IN  << [kind |-> IF RLt(Rat(20, 1), pct) THEN "Strong revenue growth"
                              ELSE IF RLt(RZero, pct) THEN "Revenue increased"
                              ELSE "Revenue declined",
                     items |-> ClauseItems(<<rev>>)] >>
NotableClauses(ms) ==
    (IF Len(Significant(ms, TRUE)) > 0
     THEN << [kind |-> "Notable increases",
              items |-> ClauseItems(FirstThree(Significant(ms, TRUE)))] >> ELSE <<>>)
    \o (IF Len(Significant(ms, FALSE)) > 0
        THEN << [kind |-> "Notable decreases",
                 items |-> ClauseItems(FirstThree(Significant(ms, FALSE)))] >> ELSE <<>>)
Narrative(ms) ==
    IF Len(ms) = 0 THEN [text |-> "", clauses |-> <<>>]
    ELSE LET narratives == NotableClauses(ms) \o RevenueClause(ms)
         IN  IF Len(narratives) = 0
             THEN [text |-> "Year-over-year data available for comparison", clauses |-> <<>>]
             ELSE [text |-> "clauses", clauses |-> narratives]

GenerateYoYNarrative ==
    /\ yoyCall.n < MaxAnalyses
    /\ yoyCall' = [op |-> "generate_yoy_narrative", n |-> yoyCall.n + 1,
                   result |-> Narrative(metrics)]
    /\ UNCHANGED <<metrics, citeVars, confVars, auditVars, engineVars, appVars>>

InitYoY == CiteInit /\ ConfIdle /\ AuditInit /\ EngineIdle /\ AppIdle /\ YoYIdle
NextYoY == AnalyzeData \/ CallParseValue \/ GenerateYoYNarrative
SpecYoY == InitYoY /\ [][NextYoY]_vars

----------------------------------------------------------------------------
(* Views of the generate call that is in progress or has just ended *)

\* the call in progress, or else the call that ended last
CurrentCall == IF call.pc = "idle" THEN outcome.call ELSE call
RetrievalsOf(trace) == {i \in 1..Len(trace) : trace[i].cap = "retrieve"}
GenerationsOf(trace) == {i \in 1..Len(trace) : trace[i].cap = "llm"}
RetrievalRaised(trace) == \E i \in RetrievalsOf(trace) : trace[i].raised
\* both retrievals were made and both returned no passage
RetrievedNothing(trace) ==
    /\ Cardinality(RetrievalsOf(trace)) = 2
    /\ \A i \in RetrievalsOf(trace) : ~trace[i].raised /\ trace[i].returned = 0
\* the citations format_citations_for_prompt makes of docs on a reset manager
CitationsOfDocs(docs) == CitationsJson(FormatCitationsForPrompt(ResetManager, docs).citations)
GenerationEntries == {i \in 1..Len(entries) : entries[i].event_type = "generation"}

(* C2: for every generate call that returns, whatever calls came before it and
   whatever include_citations is, the citations in the returned metadata and
   the sources of the call's generation audit entry are exactly the citations
   of the passages retrieved in this call, numbered 1..N with N the returned
   sources_count. *)
C2_CitationsArePerCall ==
    outcome.kind = "returned" =>
        /\ outcome.metadata.sources_count = Len(outcome.call.docs)
        /\ outcome.metadata.citations = CitationsOfDocs(outcome.call.docs)
        /\ entries[Len(entries)].metadata.sources = CitationsOfDocs(outcome.call.docs)

(* C6: a generate call in which the section-filtered retrieval and the fallback
   retrieval both returned no passage invokes text generation once and, when
   that returns, ends normally with zero citations, sources_count 0,
   source_quality 0 and overall = round(0.6 * data_coverage, 2). *)
C6_EmptyRetrievalIsNotAnError ==
    (call.pc = "idle" /\ RetrievedNothing(outcome.call.trace)) =>
        /\ Cardinality(GenerationsOf(outcome.call.trace)) = 1
        /\ outcome.kind = "raised" => outcome.error = "GenerationError"
        /\ outcome.kind = "returned" =>
            /\ outcome.metadata.citations = <<>>
            /\ outcome.metadata.sources_count = 0
            /\ outcome.metadata.confidence.source_quality = 0
            /\ last_confidence.score.raw.source_quality = RZero
            /\ \E tie \in {0, 1} :
                /\ (tie = 1 => IsTie(last_confidence.score.raw.overall))
                /\ outcome.metadata.confidence.overall =
                       Round2(RMul(Rat(6, 10), last_confidence.score.raw.data_coverage), tie)

(* C7 as the spec states it: every generate call that has ended invoked text
   generation exactly once. *)
C7_GenerationExactlyOnce ==
    CurrentCall.pc \in {"returned", "raised"} =>
        Cardinality(GenerationsOf(CurrentCall.trace)) = 1

(* C7: in every generate call the first capability invoked is the retrieval
   with the (ticker, section) filter; a second retrieval, without the section
   filter, is made if and only if the first returned zero passages; retrieval
   is invoked at most twice; text generation is invoked at most once, after
   every retrieval, and exactly once in every ended call in which no retrieval
   raised. *)
C7_RetrievalThenGeneration ==
    LET c == CurrentCall
        t == c.trace
    IN  /\ Cardinality(RetrievalsOf(t)) <= 2
        /\ Cardinality(GenerationsOf(t)) <= 1
        /\ \A i \in RetrievalsOf(t), j \in GenerationsOf(t) : i < j
        /\ Len(t) >= 1 => (t[1].cap = "retrieve" /\ t[1].filter_section = SectionKey(c.method))
        /\ \A i \in RetrievalsOf(t) :
              i > 1 => /\ i = 2
                       /\ t[i].filter_section = None
                       /\ ~t[1].raised /\ t[1].returned = 0
        /\ (c.pc \in {"llm", "returned"} \/ GenerationsOf(t) # {}) =>
              (Cardinality(RetrievalsOf(t)) = 2 <=> t[1].returned = 0)
        /\ c.pc \in {"returned", "raised"} =>
              (Cardinality(GenerationsOf(t)) = 1 <=> ~RetrievalRaised(t))
        /\ c.pc = "raised" /\ RetrievalRaised(t) => Len(t) = 1

\* C7 witness: a call that retrieved twice, then generated, and returned
C7_Witness ==
    /\ outcome.kind = "returned"
    /\ Len(outcome.call.trace) = 3
    /\ outcome.call.trace[2].cap = "retrieve"
    /\ outcome.call.trace[3].cap = "llm"

(* C8: when text generation fails in a generate call the call ends by raising
   that failure, text generation was invoked once in it, and the call appended
   no generation entry; in every reachable state the number of generation
   entries in the log equals the number of text generations that completed. *)
C8_FailedGenerationNotLogged ==
    /\ Cardinality(GenerationEntries) = llmCompleted
    /\ \A i \in GenerationsOf(CurrentCall.trace) :
          ~CurrentCall.trace[i].ok =>
              /\ call.pc = "idle"
              /\ outcome.kind = "raised"
              /\ outcome.error = "GenerationError"
              /\ Cardinality(GenerationsOf(outcome.call.trace)) = 1
              /\ \A e \in GenerationEntries : e < outcome.call.first_entry

\* C8 witness: a call whose text generation failed, after a call that completed
C8_Witness ==
    /\ outcome.kind = "raised"
    /\ outcome.error = "GenerationError"
    /\ llmCompleted = 1
    /\ Len(entries) >= 1

(* C9: when text generation or the audit-log write (save_log) fails while a chat
   request is being served, the caller of the request observes a failure (the
   500 answer), never a normal return. *)
C9_FailuresReachTheCaller ==
    (app.pc = "idle" /\ app.failures \cap {"generation", "save_log"} # {}) =>
        app.result.status = 500


\* the last entry of a non-empty entry sequence
LastEntry(es) == es[Len(es)]

\* the event type each log method records
LogOps == {"log_user_request", "log_data_provided", "log_generation", "log_revision"}
ReadOps == {"save_log", "get_session_summary", "generate_audit_report"}
EventTypeOf(op) == CASE op = "log_user_request" -> "user_request"
                     [] op = "log_data_provided" -> "data_provided"
                     [] op = "log_generation" -> "generation"
                     [] op = "log_revision" -> "revision"
AuditEntryFields == {"timestamp", "session_id", "event_type", "ticker", "fiscal_year", "content_hash", "content", "metadata"}

(* C11: the audit log is append-only. In every step the entry sequence before
   the step is a prefix of the sequence after it; a step that is a
   log_user_request, log_data_provided, log_generation or log_revision call
   appends exactly one entry, of that call's event type, at the end; a step
   that is a save_log, get_session_summary or generate_audit_report call leaves
   the sequence as it was. *)
C11_AppendOnly ==
    [][/\ Len(entries) <= Len(entries')
       /\ \A i \in 1..Len(entries) : entries'[i] = entries[i]
       /\ loggerCall'.op \in LogOps =>
             /\ Len(entries') = Len(entries) + 1
             /\ LastEntry(entries').event_type = EventTypeOf(loggerCall'.op)
       /\ loggerCall'.op \in ReadOps => entries' = entries]_vars

\* C11 witness: an entry was appended and a later save_log wrote the file
C11_Witness ==
    /\ Len(entries) >= 1
    /\ loggerCall.op = "save_log"
    /\ loggerCall.written

(* C12: when save_log writes the file twice with no entry appended in between,
   the second write leaves the file content as the first write made it. *)
C12_SaveLogIdempotent ==
    [][(/\ loggerCall.op = "save_log" /\ loggerCall.written
        /\ loggerCall'.op = "save_log" /\ loggerCall'.written
        /\ entries' = entries)
          => files'[log_file] = files[log_file]]_vars

(* C13: right after a save_log that wrote the file, the document's entries array
   has the logger's entries in append order, each with every field of
   AuditEntry and that field's value, and total_entries is the length of the
   array. *)
C13_SavedDocumentIsFullLog ==
    (loggerCall.op = "save_log" /\ loggerCall.written) =>
        LET document == files[log_file]
        IN  /\ document.total_entries = Len(document.entries)
            /\ Len(document.entries) = Len(entries)
            /\ \A i \in 1..Len(entries) :
                  /\ DOMAIN document.entries[i] = AuditEntryFields
                  /\ \A f \in AuditEntryFields : document.entries[i][f] = entries[i][f]

\* C13 witness: a save_log wrote a document of a log that holds an entry
C13_Witness ==
    /\ loggerCall.op = "save_log"
    /\ loggerCall.written
    /\ Len(entries) >= 1
    /\ files[log_file].total_entries = Len(entries)

(* C14: two generation entries that differ in their source list or in their
   confidence breakdown carry different content and different content_hash. *)
C14_HashCoversSourcesAndConfidence ==
    \A i, j \in GenerationEntries :
        (\/ entries[i].metadata.sources # entries[j].metadata.sources
         \/ entries[i].metadata.confidence # entries[j].metadata.confidence)
            => /\ Pairs(entries[i].content) # Pairs(entries[j].content)
               /\ entries[i].content_hash # entries[j].content_hash

(* C20: every Citation held by the manager has an excerpt of at most 200
   characters. *)
C20_ExcerptAtMost200 ==
    \A i \in 1..Len(citations) : Len(citations[i].excerpt) <= ExcerptLen


\* the labels of a map that are current-year labels, in the map's order
IsPriorLabel(key) == Contains(key, PriorMarker)
CurrentLabels(financial_data) ==
    LET keys == [i \in 1..Len(financial_data) |-> financial_data[i][1]]
    IN  SelectSeq(keys, LAMBDA key : key # K_raw_input /\ ~IsPriorLabel(key))
MetricNames == [i \in 1..Len(metrics) |-> metrics[i].name]
\* the distance of two rationals is at most bound
RWithin(x, y, bound) == RLe(RAbs(RSub(x, y)), bound)
\* the metric of a label, when there is one
MetricsNamed(label) == {i \in 1..Len(metrics) : metrics[i].name = label}
HasField(financial_data, key, value) ==
    \E i \in 1..Len(financial_data) : financial_data[i] = <<key, value>>

(* C15: after an analyze_data call the analyzer's metrics are exactly one metric
   per current-year label of the call's input map, in the order of the map: no
   metric is named by a label carrying '(Prior Year)' or by 'raw_input', a
   prior-only label yields no metric, and nothing of the metrics held before
   the call remains. *)
C15_OneMetricPerCurrentLabel ==
    yoyCall.op = "analyze_data" =>
        /\ MetricNames = CurrentLabels(yoyCall.financial_data)
        /\ \A i \in 1..Len(metrics) :
              metrics[i].name # K_raw_input /\ ~IsPriorLabel(metrics[i].name)

\* C15 witness: a second analyze_data call whose map has a prior-only label, the
\* narrative key and one current label
C15_Witness ==
    /\ yoyCall.op = "analyze_data"
    /\ yoyCall.n = 2
    /\ Len(yoyCall.financial_data) = 3
    /\ \E i \in 1..3 : yoyCall.financial_data[i][1] = K_RevenuePrior
    /\ \E i \in 1..3 : yoyCall.financial_data[i][1] = K_raw_input
    /\ \A i \in 1..3 : yoyCall.financial_data[i][1] # K_Revenue
    /\ Len(metrics) = 1

(* C16: every metric whose prior value is present and not zero has
   change_absolute within half a hundredth of current - prior and
   change_percent within half a tenth of 100 * (current - prior) / |prior|;
   current '$12.5 billion' with prior '$10.0 billion' gives current 12.5 with
   unit B, prior 10.0, change_absolute 2.5, change_percent 25.0 and trend up. *)
C16_ChangeFormulas ==
    /\ \A i \in 1..Len(metrics) :
          LET m == metrics[i]
          IN  (m.prior_value.set /\ m.prior_value.value # RZero) =>
                  LET diff == RSub(m.current_value, m.prior_value.value)
                  IN  /\ m.change_absolute.set
                      /\ m.change_percent.set
                      /\ RWithin(m.change_absolute.value, diff, Rat(1, 200))
                      /\ RWithin(m.change_percent.value,
                                 RDiv(RMul(RHundred, diff), RAbs(m.prior_value.value)),
                                 Rat(1, 20))
    /\ (/\ yoyCall.op = "analyze_data"
        /\ HasField(yoyCall.financial_data, K_Revenue, V_Amount)
        /\ HasField(yoyCall.financial_data, K_RevenuePrior, V_AmountPrior)) =>
            \E i \in MetricsNamed(K_Revenue) :
                /\ metrics[i].current_value = Rat(25, 2)
                /\ metrics[i].unit = "B"
                /\ metrics[i].prior_value = [set |-> TRUE, value |-> Rat(10, 1)]
                /\ metrics[i].change_absolute = [set |-> TRUE, value |-> Rat(5, 2)]
                /\ metrics[i].change_percent = [set |-> TRUE, value |-> Rat(25, 1)]
                /\ metrics[i].trend = "up"

\* C16 witness: the analysis of '$12.5 billion' against '$10.0 billion'
C16_Witness ==
    /\ yoyCall.op = "analyze_data"
    /\ HasField(yoyCall.financial_data, K_Revenue, V_Amount)
    /\ HasField(yoyCall.financial_data, K_RevenuePrior, V_AmountPrior)
    /\ \E i \in MetricsNamed(K_Revenue) : metrics[i].change_percent.set

(* C17: in every metric change_absolute and change_percent are present
   together, and they are present exactly when the prior value is present and
   not zero; a metric without them has trend flat, and a current label whose
   prior is absent or zero still has its metric. *)
C17_ChangePresentIffPriorNonZero ==
    /\ \A i \in 1..Len(metrics) :
          LET m == metrics[i]
          IN  /\ m.change_absolute.set <=> m.change_percent.set
              /\ m.change_absolute.set <=> (m.prior_value.set /\ m.prior_value.value # RZero)
              /\ ~m.change_absolute.set => m.trend = "flat"
    /\ yoyCall.op = "analyze_data" =>
          Len(metrics) = Len(CurrentLabels(yoyCall.financial_data))

\* C17 witness: a metric whose prior value parsed to zero, next to the analysis
\* of a label that has no prior
C17_Witness ==
    /\ yoyCall.op = "analyze_data"
    /\ \E i \in 1..Len(metrics) :
          /\ metrics[i].prior_value = [set |-> TRUE, value |-> RZero]
          /\ ~metrics[i].change_percent.set
          /\ metrics[i].trend = "flat"
    /\ \E i \in 1..Len(metrics) : ~metrics[i].prior_value.set

(* C18: in every metric the trend is the classification of the metric's own
   change_percent field: up when it is above 1, down when it is below -1, flat
   otherwise and when it is absent. *)
C18_TrendAgreesWithChangePercent ==
    \A i \in 1..Len(metrics) :
        LET m == metrics[i]
        IN  m.trend = IF m.change_percent.set /\ RLt(ROne, m.change_percent.value) THEN "up"
                      ELSE IF m.change_percent.set /\ RLt(m.change_percent.value, RNeg(ROne))
                           THEN "down"
                      ELSE "flat"

\* value strings float() cannot read once parse_value has normalized them
MalformedValues ==
    {<<" ", " ">>, <<"1","2"," ","B","I","L","L","I","O","N">>, <<"B">>, <<"5","b">>, <<"5"," ","m">>,
     <<"%">>, <<"(","3">>, <<"(","-","5",")">>, <<"N","/","A">>, <<".">>, <<"1",".","2",".","3">>, <<"$">>}

(* C19: parse_value returns, for every value string, a magnitude and a unit
   among '', 'B', 'M' and '%' and does not raise; the empty string and a string
   float() cannot read give magnitude 0.0; analyze_data does not raise and a
   map holding a malformed value still yields the metric of every current
   label. *)
C19_ParseValueTotal ==
    /\ yoyCall.op = "parse_value" =>
          /\ ~yoyCall.result.raised
          /\ yoyCall.result.unit \in {"", "B", "M", "%"}
          /\ (yoyCall.value_str \in MalformedValues \cup {<<>>}) =>
                yoyCall.result.value = RZero
    /\ yoyCall.op = "analyze_data" =>
          /\ ~yoyCall.raised
          /\ Len(metrics) = Len(CurrentLabels(yoyCall.financial_data))
          /\ \A i \in 1..Len(metrics) : metrics[i].unit \in {"", "B", "M", "%"}

\* C19 witness: a map whose first value is malformed and whose second yields a metric
C19_Witness ==
    /\ yoyCall.op = "analyze_data"
    /\ Len(yoyCall.financial_data) >= 2
    /\ yoyCall.financial_data[1] \in {K_Margin} \X MalformedValues
    /\ Len(metrics) >= 2
    /\ metrics[1].current_value = RZero
    /\ metrics[2].current_value # RZero


(* C21: the returned reasoning is what the banding rules of _generate_reasoning
   give for the data_coverage and source_quality fields of the same returned
   ConfidenceScore and the provided-data map.  Stated for the calls in which no
   round() is on a tie, so that a violation never rests on how a tie is broken. *)
C21_ReasoningFromReturnedScores ==
    (confOut.returned /\ NoTie(confOut.score.raw)) =>
        confOut.score.reasoning =
            GenerateReasoning(Rat(confOut.score.data_coverage, 100),
                              Rat(confOut.score.source_quality, 100),
                              confIn.provided_data)


\* checklist fields that occur in the lower-cased values of a map joined by spaces
MatchedFields(data, checklist) ==
    LET joined == Lower(Join(DictValues(data), <<" ">>))
    IN  Cardinality({i \in 1..Len(checklist) : Contains(joined, checklist[i])})
\* min(1, matched/|checklist| + 0.3 + (0.2 if 'raw_input' is a key))
CoverageFormula(data, section) ==
    LET checklist == IF section = "mda" THEN REQUIRED_FINANCIAL_FIELDS
                     ELSE REQUIRED_BUSINESS_FIELDS
        bonus == IF \E i \in 1..Len(data) : data[i][1] = K_raw_input THEN Rat(2, 10) ELSE RZero
    IN  RMin(ROne, RAdd(RAdd(Rat(MatchedFields(data, checklist), Len(checklist)), Rat(3, 10)),
                        bonus))
\* the map without its last entry
WithoutLast(data) == SubSeq(data, 1, Len(data) - 1)

(* C23: for a non-empty provided-data map the unrounded data_coverage is
   min(1, matched/|checklist| + 0.3 + (0.2 if 'raw_input' is a key)), with the
   7-field list for section 'mda' and the 5-field list otherwise, and the
   returned data_coverage is its rounding to hundredths; the map is never
   covered less than the map without its last entry. *)
C23_DataCoverageFormula ==
    (confOut.returned /\ Len(confIn.provided_data) > 0) =>
        LET expected == CoverageFormula(confIn.provided_data, confIn.section)
        IN  /\ confOut.score.raw.data_coverage = expected
            /\ NearestHundredth(confOut.score.data_coverage, expected)
            /\ RLe(CalculateDataCoverage(WithoutLast(confIn.provided_data), confIn.section),
                   confOut.score.raw.data_coverage)

\* C23 witness: a two-entry map with the narrative key whose coverage is clamped to 1
C23_Witness ==
    /\ confOut.returned
    /\ Len(confIn.provided_data) = 2
    /\ \E i \in 1..2 : confIn.provided_data[i][1] = K_raw_input
    /\ confIn.section = "mda"
    /\ confOut.score.data_coverage = 100


\* 1.0, 0.8 or 0.5 by the years the filing date of a passage contains, in tenths
RecencyOf(doc) ==
    LET date == IF "filing_date" \in DOMAIN doc.metadata THEN doc.metadata["filing_date"] ELSE <<>>
        has(year) == Contains(date, year)
    IN  IF has(<<"2","0","2","4">>) \/ has(<<"2","0","2","5">>) THEN 10
        ELSE IF has(<<"2","0","2","3">>) THEN 8 ELSE 5
RECURSIVE RecencySum(_)
RecencySum(docs) == IF Len(docs) = 0 THEN 0 ELSE RecencyOf(docs[1]) + RecencySum(Tail(docs))
SectionsOf(docs) ==
    {IF "section" \in DOMAIN docs[i].metadata THEN docs[i].metadata["section"] ELSE "" :
        i \in 1..Len(docs)}
\* 0.3 * min(1, count/8) + 0.3 * min(1, distinct_sections/3) + 0.4 * mean(recency)
SourceQualityFormula(docs) ==
    RAdd(RAdd(RMul(Rat(3, 10), RMin(ROne, Rat(Len(docs), 8))),
              RMul(Rat(3, 10), RMin(ROne, Rat(Cardinality(SectionsOf(docs)), 3)))),
         RMul(Rat(4, 10), Rat(RecencySum(docs), 10 * Len(docs))))
\* three passages from two distinct sections, all dated 2024
ThreeFromTwoSections2024(docs) ==
    /\ Len(docs) = 3
    /\ Cardinality(SectionsOf(docs)) = 2
    /\ \A i \in 1..3 : Contains(docs[i].metadata["filing_date"], <<"2","0","2","4">>)

(* C24: for every generate call that returns with a non-empty passage list the
   returned source_quality is the rounding to hundredths of
   0.3 * min(1, count/8) + 0.3 * min(1, sections/3) + 0.4 * mean(recency); for
   three passages from two distinct sections all dated 2024 it is
   round(0.3*3/8 + 0.3*2/3 + 0.4, 2) = 0.71 and the call returns exactly three
   citations, with ids 1, 2, 3. *)
C24_SourceQualityAndCitations ==
    (outcome.kind = "returned" /\ Len(outcome.call.docs) > 0) =>
        LET docs == outcome.call.docs
            cites == outcome.metadata.citations
        IN  /\ NearestHundredth(outcome.metadata.confidence.source_quality,
                                SourceQualityFormula(docs))
            /\ ThreeFromTwoSections2024(docs) =>
                  /\ outcome.metadata.confidence.source_quality = 71
                  /\ [i \in 1..Len(cites) |-> cites[i].id] = <<1, 2, 3>>

\* the source_quality part of C24 alone, of calculate_confidence
SourceQualityAsFormula ==
    (confOut.returned /\ Len(confIn.retrieved_docs) > 0) =>
        /\ confOut.score.raw.source_quality = SourceQualityFormula(confIn.retrieved_docs)
        /\ NearestHundredth(confOut.score.source_quality,
                            SourceQualityFormula(confIn.retrieved_docs))
\* the example of C24 for the calls that include citations
ExampleWithCitations ==
    (outcome.kind = "returned" /\ outcome.call.include_citations
     /\ ThreeFromTwoSections2024(outcome.call.docs)) =>
        /\ outcome.metadata.confidence.source_quality = 71
        /\ [i \in 1..3 |-> outcome.metadata.citations[i].id] = <<1, 2, 3>>
        /\ Len(outcome.metadata.citations) = 3


RevenueKinds == {"Strong revenue growth", "Revenue increased", "Revenue declined"}

(* C25: in the narrative generate_yoy_narrative returns, the clause of the
   revenue-labelled metric, when there is one, is the first clause, ahead of
   the clauses that call out the metrics whose |change_percent| > 10. *)
C25_RevenueClauseFirst ==
    (/\ yoyCall.op = "generate_yoy_narrative"
     /\ \E i \in 1..Len(yoyCall.result.clauses) : yoyCall.result.clauses[i].kind \in RevenueKinds)
        => yoyCall.result.clauses[1].kind \in RevenueKinds


\* the value string a map gives for a label
ValueOf(financial_data, label) ==
    financial_data[CHOOSE i \in 1..Len(financial_data) : financial_data[i][1] = label][2]

(* C27: every metric carries the unit parsed from its current value string,
   whatever the unit of the prior value string, and its change_absolute and
   change_percent are those of the parsed magnitudes as they are: current
   '(5.2) million' with prior '$10.0 billion' gives unit M, change_absolute
   -15.2 and change_percent -152.0. *)
C27_PriorUnitDiscarded ==
    yoyCall.op = "analyze_data" =>
        /\ \A i \in 1..Len(metrics) :
              /\ metrics[i].unit = ParseValue(ValueOf(yoyCall.financial_data, metrics[i].name)).unit
              /\ metrics[i].change_absolute.set =>
                    /\ RWithin(metrics[i].change_absolute.value,
                               RSub(metrics[i].current_value, metrics[i].prior_value.value),
                               Rat(1, 200))
                    /\ RWithin(metrics[i].change_percent.value,
                               RDiv(RMul(RHundred, RSub(metrics[i].current_value,
                                                        metrics[i].prior_value.value)),
                                    RAbs(metrics[i].prior_value.value)),
                               Rat(1, 20))
        /\ (/\ HasField(yoyCall.financial_data, K_Revenue, V_LossMillions)
            /\ HasField(yoyCall.financial_data, K_RevenuePrior, V_AmountPrior)) =>
                \E i \in MetricsNamed(K_Revenue) :
                    /\ metrics[i].unit = "M"
                    /\ metrics[i].current_value = Rat(-52, 10)
                    /\ metrics[i].prior_value = [set |-> TRUE, value |-> Rat(10, 1)]
                    /\ metrics[i].change_absolute = [set |-> TRUE, value |-> Rat(-152, 10)]
                    /\ metrics[i].change_percent = [set |-> TRUE, value |-> Rat(-152, 1)]

\* C27 witness: a current value in millions analysed against a prior value in billions
C27_Witness ==
    /\ yoyCall.op = "analyze_data"
    /\ HasField(yoyCall.financial_data, K_Revenue, V_LossMillions)
    /\ HasField(yoyCall.financial_data, K_RevenuePrior, V_AmountPrior)
    /\ \E i \in MetricsNamed(K_Revenue) :
          metrics[i].unit = "M" /\ metrics[i].change_percent.set


\* the event types of the entries the current call has appended so far
EntriesOfCall(c) == [i \in 1..(Len(entries) + 1 - c.first_entry) |->
                        entries[c.first_entry + i - 1].event_type]
LlmInvoked(c) == GenerationsOf(c.trace) # {}

(* C26: in generate_mda_section with a non-empty financial_data map the
   data_provided entry is in the log when the text generation is invoked; a
   call that returns has appended exactly data_provided then generation, a
   call whose text generation raised has appended data_provided alone. With an
   empty or absent financial_data no data_provided entry is appended. *)
C26_DataProvidedBeforeGeneration ==
    LET c == CurrentCall
    IN  c.method = "generate_mda_section" =>
          IF Len(c.financial_data.items) > 0
          THEN /\ c.pc = "llm" => EntriesOfCall(c) = <<"data_provided">>
               /\ c.pc = "returned" => EntriesOfCall(c) = <<"data_provided", "generation">>
               /\ (c.pc = "raised" /\ LlmInvoked(c)) => EntriesOfCall(c) = <<"data_provided">>
          ELSE /\ c.pc = "llm" => EntriesOfCall(c) = <<>>
               /\ c.pc = "returned" => EntriesOfCall(c) = <<"generation">>
               /\ c.pc = "raised" => EntriesOfCall(c) = <<>>

\* C26 witness: the text generation of an MD&A call with data has failed, after
\* an earlier call had already left entries in the log
C26_Witness ==
    /\ outcome.kind = "raised"
    /\ call.pc = "idle"
    /\ outcome.call.method = "generate_mda_section"
    /\ Len(outcome.call.financial_data.items) > 0
    /\ LlmInvoked(outcome.call)
    /\ outcome.call.first_entry > 1
    /\ LastEntry(entries).event_type = "data_provided"


\* a step that is the reset of the session, not a step of process_message
IsReset == app.pc = "idle" /\ app'.pc = "idle" /\ app'.context = NewContext
\* a step in which process_message returns
Returns == app.pc \in {"idle", "business", "mda"} /\ app'.pc = "idle" /\ app'.result.status = 200

(* C28: a process_message call made in state awaiting_financial_data goes to
   the MD&A generation and, whether generate_mda_section returned or raised,
   returns with the state complete; the audit log file is written in that
   turn only if the generation returned, and when it raised generated_sections
   holds no 'mda' key afterwards. *)
C28_FinancialDataTurnCompletes ==
    [][/\ (app.pc = "idle" /\ app.context.state = "awaiting_financial_data"
              /\ app' # app /\ ~IsReset) =>
            (app'.pc = "mda" /\ app'.context.state = "awaiting_financial_data")
       /\ (app.pc = "mda" /\ app.context.state = "awaiting_financial_data" /\ app' # app) =>
            /\ Returns
            /\ app'.context.state = "complete"
            /\ files' # files => outcome.kind = "returned"
            /\ outcome.kind # "returned" =>
                  /\ ~app'.context.generated_sections.mda.set
                  /\ files' = files]_vars

\* C28 witness: the turn made in awaiting_financial_data has ended with a failed
\* generation, the state is complete and no MD&A section is stored
C28_Witness ==
    /\ app.pc = "idle"
    /\ app.result.status = 200
    /\ app.context.state = "complete"
    /\ app.failures # {}
    /\ ~app.context.generated_sections.mda.set
    /\ Len(app.context.messages) = 4


\* the states a conversation rests in, and what each of them has collected
RestingStates == {"initial", "awaiting_company", "awaiting_year", "awaiting_financial_data", "complete"}
Collected(ctx) ==
    /\ ctx.state \in RestingStates
    /\ ctx.state = "awaiting_year" => ctx.ticker # None
    /\ ctx.state \in {"awaiting_financial_data", "complete"} =>
          (ctx.ticker # None /\ ctx.fiscal_year # None)

(* C29: whenever no process_message call is running - initially, after a call
   has returned or raised, after a reset - the conversation state is one of
   initial, awaiting_company, awaiting_year, awaiting_financial_data and
   complete; awaiting_year has a ticker, awaiting_financial_data and complete
   have a ticker and a fiscal year; and the state becomes complete only from
   awaiting_financial_data or complete. *)
C29_RestingStates ==
    [][/\ app'.pc = "idle" => Collected(app'.context)
       /\ (app'.context.state = "complete" /\ app' # app) =>
              app.context.state \in {"awaiting_financial_data", "complete"}]_vars

\* C29 witness: after a generation and a reset of the session, the next message
\* named a company and no year
C29_Witness ==
    /\ app.pc = "idle"
    /\ app.result.status = 200
    /\ app.context.state = "awaiting_year"
    /\ app.context.ticker = "NVDA"
    /\ app.context.fiscal_year = None
    /\ Len(entries) > 0


(* C30: when process_message has returned, the last two entries of the
   conversation history are the user's message and then the assistant's
   response of that call. *)
C30_HistoryEndsWithTheExchange ==
    (app.pc = "idle" /\ app.result.status = 200) =>
        LET messages == app.context.messages
            n == Len(messages)
        IN  /\ n >= 2
            /\ messages[n - 1].role = "user"
            /\ messages[n].role = "assistant"
            /\ messages[n].content = app.result.response


\* the generate call a session is in, or the one it made last
CallOf(s) == IF s.call.pc = "idle" THEN s.outcome.call ELSE s.call
\* the call has formatted its context (rag_engine.py:81-88, 169-175)
Prepared(c) == c.pc \in {"llm", "returned"} \/ (c.pc = "raised" /\ LlmInvoked(c))
\* the event types of the entries a call appends when its session runs alone
EntriesAlone(c) ==
    (IF Prepared(c) /\ c.method = "generate_mda_section" /\ Len(c.financial_data.items) > 0
     THEN <<"data_provided">> ELSE <<>>)
    \o (IF c.pc = "returned" THEN <<"generation">> ELSE <<>>)
\* the three numbers of a ConfidenceScore
Numbers(score) ==
    [overall |-> score.overall, data_coverage |-> score.data_coverage,
     source_quality |-> score.source_quality]
\* the state of session s is the state its own calls alone account for
RanAlone(s) ==
    LET c == CallOf(s)
        first == IF c.first_entry = 0 THEN 1 ELSE c.first_entry
    IN  /\ \A i \in 1..Len(s.entries) : s.entries[i].session_id = s.session_id
        /\ \A k \in 1..Len(s.citations) : s.citations[k].source_id = k
        /\ s.citation_counter = Len(s.citations)
        /\ (s.call.pc = "idle" /\ s.outcome.kind = "none") =>
              (s.citations = <<>> /\ s.entries = <<>> /\ ~s.last_confidence.set)
        /\ Prepared(c) =>
              /\ s.last_sources = c.docs
              /\ c.include_citations => CitationsJson(s.citations) = CitationsOfDocs(c.docs)
        /\ [i \in 1..(Len(s.entries) + 1 - first) |-> s.entries[first + i - 1].event_type]
              = EntriesAlone(c)
        /\ c.pc = "returned" =>
              /\ \E ties \in TiesOf(ConfidenceLocals(c.financial_data.items, c.docs,
                                                     SectionOf(c.method))) :
                    s.last_confidence.score =
                        ScoreOf(ConfidenceLocals(c.financial_data.items, c.docs,
                                                 SectionOf(c.method)),
                                c.financial_data.items, ties)
              /\ Numbers(s.outcome.metadata.confidence) = Numbers(s.last_confidence.score)
              /\ LastEntry(s.entries).metadata.confidence = Numbers(s.last_confidence.score)
              /\ s.outcome.metadata.citations = CitationsJson(s.citations)
              /\ LastEntry(s.entries).metadata.sources = CitationsJson(s.citations)

(* C22: when the generate calls of two sessions are interleaved in any order,
   each session's citation ids, confidence results and audit entries are those
   of its own calls: the citations are numbered 1..N and are the passages of
   the session's own call, every score is the one computed from that call's
   data and passages, and the log holds exactly the entries its own calls
   append, all under the session's own id. *)
C22_SessionsDoNotInterfere ==
    peer # NoSession => (RanAlone(Running) /\ RanAlone(peer))

\* C22 witness: while one session waits for its text generation, the other one has
\* retrieved other passages and completed a whole call
C22_Witness ==
    /\ peer # NoSession
    /\ call.pc = "llm"
    /\ call.include_citations
    /\ call.method = "generate_mda_section"
    /\ Len(call.financial_data.items) > 0
    /\ peer.outcome.kind = "returned"
    /\ peer.outcome.call.include_citations
    /\ Len(peer.citations) > 0
    /\ Len(citations) > 0
    /\ peer.citations # citations
    /\ LastEntry(entries).timestamp < LastEntry(peer.entries).timestamp

============================================================================
